---------------------------- MODULE Spec2Model ----------------------------
(***************************************************************************)
(* A model of the field/type transformation and reconciliation logic of    *)
(* the RealTechee data-migration scripts:                                  *)
(*   scripts/migrate_to_amplify_tables.py  (AmplifyDataMigrator)           *)
(*   scripts/extract_properties.py         (findMatchingContact/Address)   *)
(*   scripts/rename_dynamodb_tables.py     (DynamoDBTableRenamer)          *)
(*   migration/fix-date-formats.py         (DateFormatFixer)               *)
(*                                                                         *)
(* Python strings are TLA+ strings, handled character by character with    *)
(* Len, SubSeq and \o.  Python values are records [t, s, n, u]: t is the   *)
(* Python type, s the text of a str (or the digits of a Decimal, or the    *)
(* filename of a document record), n the number of an int or bool, u the   *)
(* documentPublicUrl of a document record.                                 *)
(***************************************************************************)
EXTENDS Integers, Sequences, FiniteSets, TLC

VARIABLES
    pc,         \* position of the running script
    mValue,     \* media rewriter: the field value handed in
    mKind,      \* media rewriter: the field kind
    mOnce,      \* media rewriter: convert_wix_url_field(mValue, mKind)
    mTwice,     \* media rewriter: the converter applied to mOnce
    cValue,     \* scalar coercion: the value handed in
    cOp,        \* scalar coercion: the rule applied
    cResult,    \* scalar coercion: what the rule returned
    tItem,      \* transform_item: the source item, a sequence of [key, val]
    tTable,     \* transform_item: table_base_name
    tIdx,       \* transform_item: how many fields the loop has handled
    tOut,       \* transform_item: transformed_item
    query,      \* findMatchingContact: its arguments
    pool,       \* findMatchingContact: the rows of Contacts.csv
    rowIdx,     \* findMatchingContact: how many rows the loop has scored
    score,      \* findMatchingContact: score of the row scored last
    best_score, \* findMatchingContact: best_score
    best_row,   \* findMatchingContact: index of best_row in pool, 0 for None
    matched,    \* findMatchingContact: index of the returned row, 0 for None
    aFull,      \* findMatchingAddress: propertyFullAddress
    aHouse,     \* findMatchingAddress: houseAddress
    aPool,      \* findMatchingAddress: the rows of Properties.csv
    aIdx,       \* findMatchingAddress: how many rows the loop has passed
    aResult,    \* findMatchingAddress: index of the returned row, 0 for None
    dValue,     \* document converter: the URL or field value handed in
    dRecord,    \* document converter: convert_wix_document_url(dValue)
    dOut,       \* document converter: value returned by convert_document_field_value
    dCount,     \* document converter: conversion count returned with it
    nValue,     \* string normalizers: the value handed in
    nOp,        \* string normalizers: the normalizer applied
    nResult,    \* string normalizers: what it returned
    gOp,        \* migrator handlers: the handler called
    dry_run,    \* migrator handlers: dry_run
    gTable,     \* migrator handlers: table_base_name of the table at hand
    gItems,     \* migrate_table_data: the items the scan of the source returned
    gScanRaises,\* migrator handlers: whether the scan of the table raises
    gBad,       \* migrator handlers: ids of the items whose write raises
    gConfirm,   \* migrator handlers: the answers typed at the prompts
    gBackup,    \* restore_from_backup: table_data of the backup file
    gIdx,       \* run_migration: how many tables of the mapping are done
    store,      \* migrator handlers: the items of each Amplify table
    result,     \* migrator handlers: what the handler returned or totalled
    stats,      \* run_migration: migration_stats
    rOld,       \* rename_table: the items of the old table
    rOldExists, \* rename_table: whether the old table exists
    rNew,       \* rename_table: the items of the new table
    rNewExists, \* rename_table: whether the new table exists
    rItems,     \* rename_table: items, as scan_all_items returned them
    rDeleteOld, \* rename_table: delete_old
    rFailed,    \* rename_table: the steps whose DynamoDB call raised
    rReturn,    \* rename_table: the value returned
    fTable,     \* date fixer: the items of the table
    fBad,       \* date fixer: ids of the items whose update raises
    fInvalid,   \* date fixer: invalid_items of the last scan
    fFixed,     \* date fixer: total_fixed of the last run
    fErrors,    \* date fixer: total_errors of the last run
    fRuns,      \* date fixer: how many times fix_all_dates has run
    fScanRaises \* date fixer: whether the scan of the last run raised

mediaVars == <<mValue, mKind, mOnce, mTwice>>
coerceVars == <<cValue, cOp, cResult>>
transformVars == <<tItem, tTable, tIdx, tOut>>
contactVars == <<query, pool, rowIdx, score, best_score, best_row, matched>>
addressVars == <<aFull, aHouse, aPool, aIdx, aResult>>
documentVars == <<dValue, dRecord, dOut, dCount>>
normalizeVars == <<nValue, nOp, nResult>>
migrateVars == <<gOp, dry_run, gTable, gItems, gScanRaises, gBad, gConfirm, gBackup, gIdx, store, result, stats>>
renameVars == <<rOld, rOldExists, rNew, rNewExists, rItems, rDeleteOld, rFailed, rReturn>>
dateVars == <<fTable, fBad, fInvalid, fFixed, fErrors, fRuns, fScanRaises>>

vars == <<pc, mediaVars, coerceVars, transformVars, contactVars, addressVars, documentVars, normalizeVars,
          migrateVars, renameVars, dateVars>>

-----------------------------------------------------------------------------
(* Python values *)

None == [t |-> "none", s |-> "", n |-> 0, u |-> ""]
PyStr(x) == [t |-> "str", s |-> x, n |-> 0, u |-> ""]
PyInt(x) == [t |-> "int", s |-> "", n |-> x, u |-> ""]
PyBool(b) == [t |-> "bool", s |-> "", n |-> IF b THEN 1 ELSE 0, u |-> ""]
PyDec(x) == [t |-> "decimal", s |-> x, n |-> 0, u |-> ""]
DocRecord(filename, url) == [t |-> "doc", s |-> filename, n |-> 0, u |-> url]
ErrorRecord(msg) == [t |-> "error", s |-> msg, n |-> 0, u |-> ""]
Raised(exc) == [t |-> "raise", s |-> exc, n |-> 0, u |-> ""]

\* s[i:i+1], "" outside the string.
At(s, i) == IF 1 <= i /\ i <= Len(s) THEN SubSeq(s, i, i) ELSE ""

\* Python truthiness of a value (`if not value`).
Truthy(v) ==
    CASE v.t = "none" -> FALSE
      [] v.t = "str" -> v.s # ""
      [] v.t = "int" -> v.n # 0
      [] v.t = "bool" -> v.n # 0
      [] v.t = "decimal" -> \E i \in 1..Len(v.s) : At(v.s, i) \in {"1", "2", "3", "4", "5", "6", "7", "8", "9"}
      [] OTHER -> TRUE

-----------------------------------------------------------------------------
(* Python str methods *)

MinOf(S) == CHOOSE x \in S : \A y \in S : x <= y

StartsWith(s, p) == Len(p) <= Len(s) /\ SubSeq(s, 1, Len(p)) = p

EndsWith(s, p) == Len(p) <= Len(s) /\ SubSeq(s, Len(s) - Len(p) + 1, Len(s)) = p

OccursAt(s, p, i) == i >= 1 /\ i + Len(p) - 1 <= Len(s) /\ SubSeq(s, i, i + Len(p) - 1) = p

\* `p in s`
Contains(s, p) == \E i \in 1..(Len(s) - Len(p) + 1) : OccursAt(s, p, i)

\* 1-based s.find(p, from), 0 when absent.
Find(s, p, from) ==
    LET hits == {i \in from..(Len(s) - Len(p) + 1) : OccursAt(s, p, i)}
    IN IF hits = {} THEN 0 ELSE MinOf(hits)

RECURSIVE Replace(_, _, _)
\* s.replace(old, new): every non-overlapping occurrence, left to right.
Replace(s, old, new) ==
    LET i == Find(s, old, 1)
    IN IF i = 0 THEN s
       ELSE SubSeq(s, 1, i - 1) \o new \o Replace(SubSeq(s, i + Len(old), Len(s)), old, new)

RECURSIVE Split(_, _)
\* s.split(sep)
Split(s, sep) ==
    LET i == Find(s, sep, 1)
    IN IF i = 0 THEN <<s>>
       ELSE <<SubSeq(s, 1, i - 1)>> \o Split(SubSeq(s, i + Len(sep), Len(s)), sep)

RECURSIVE Join(_, _)
\* sep.join(parts)
Join(parts, sep) ==
    IF parts = <<>> THEN ""
    ELSE IF Len(parts) = 1 THEN parts[1]
    ELSE parts[1] \o sep \o Join(Tail(parts), sep)

\* The ASCII characters str.strip() and the regex class \s remove.
Whitespace == {" ", "\t", "\n", "\r", "\f"}

RECURSIVE LStrip(_)
LStrip(s) == IF s # "" /\ At(s, 1) \in Whitespace THEN LStrip(SubSeq(s, 2, Len(s))) ELSE s

RECURSIVE RStrip(_)
RStrip(s) == IF s # "" /\ SubSeq(s, Len(s), Len(s)) \in Whitespace THEN RStrip(SubSeq(s, 1, Len(s) - 1)) ELSE s

\* s.strip()
Strip(s) == RStrip(LStrip(s))

UpperLetters == "ABCDEFGHIJKLMNOPQRSTUVWXYZ"
LowerLetters == "abcdefghijklmnopqrstuvwxyz"
Digits == {"0", "1", "2", "3", "4", "5", "6", "7", "8", "9"}
LowerSet == {At(LowerLetters, i) : i \in 1..26}
UpperSet == {At(UpperLetters, i) : i \in 1..26}

\* The lower-case letter of each upper-case letter.
LowerMap == [c \in UpperSet |-> At(LowerLetters, Find(UpperLetters, c, 1))]

LowerChar(c) == IF c \in UpperSet THEN LowerMap[c] ELSE c

RECURSIVE Lower(_)
\* s.lower()
Lower(s) == IF s = "" THEN "" ELSE LowerChar(At(s, 1)) \o Lower(SubSeq(s, 2, Len(s)))

\* Every character of s is in the set C.
AllIn(s, C) == \A i \in 1..Len(s) : At(s, i) \in C

-----------------------------------------------------------------------------
(* Regular expressions of the media rewriter *)

HexChars == Digits \cup {"a", "b", "c", "d", "e", "f", "_"}

ImageExtensions == {"jpg", "jpeg", "png", "gif", "webp", "svg"}

\* Python's `$`: the end of the string, or just before a final newline.
BeforeDollar(s) == IF EndsWith(s, "\n") THEN {s, SubSeq(s, 1, Len(s) - 1)} ELSE {s}

\* re.search(r'\.(jpe?g|png|gif|webp|svg)$', s, re.IGNORECASE)
HasImageExtension(s) ==
    \E e \in BeforeDollar(Lower(s)) : \E x \in ImageExtensions : EndsWith(e, "." \o x)

\* re.match(r'^[a-f0-9_]+$', s, re.IGNORECASE)
IsHexId(s) == \E e \in BeforeDollar(Lower(s)) : e # "" /\ AllIn(e, HexChars)

\* re.match(r'^[a-f0-9_]+mv2$', s, re.IGNORECASE)
IsHexMv2(s) ==
    \E e \in BeforeDollar(Lower(s)) :
        /\ Len(e) >= 4
        /\ EndsWith(e, "mv2")
        /\ AllIn(SubSeq(e, 1, Len(e) - 3), HexChars)

\* re.match(r'mv2$', s, re.IGNORECASE)
IsBareMv2(s) == "mv2" \in BeforeDollar(Lower(s))

\* re.search(r'"<key>":"([^"]+)"', s): group 1 of the leftmost match, "" when
\* there is none (group 1 is never empty when there is a match).
JsonKeyMatch(s, key) ==
    LET pat == "\"" \o key \o "\":\""
        ends(i) == Find(s, "\"", i + Len(pat))
        hits == {i \in 1..Len(s) : OccursAt(s, pat, i) /\ ends(i) > i + Len(pat)}
    IN IF hits = {} THEN ""
       ELSE LET i == MinOf(hits) IN SubSeq(s, i + Len(pat), ends(i) - 1)

\* re.match(r'^[a-f0-9_]+.*\.(jpe?g|png|gif|webp|svg)', slug, re.IGNORECASE)
IsGallerySlug(slug) ==
    LET l == Lower(slug)
    IN /\ l # ""
       /\ At(l, 1) \in HexChars
       /\ \E i \in 2..Len(l) : \E x \in ImageExtensions :
              /\ OccursAt(l, "." \o x, i)
              /\ ~Contains(SubSeq(l, 1, i - 1), "\n")

MediaBase == "https://static.wixstatic.com/media/"
PUBLIC_URL_PREFIX == "https://03839c70-7508-4e6d-b906-4df699fc5aa1.usrfiles.com/ugd/"
ShapesBase == "https://static.wixstatic.com/shapes/"

-----------------------------------------------------------------------------
(* AmplifyDataMigrator: the Wix media rewriter *)

\* is_wix_media_url, for a str argument.
is_wix_media_url(url) ==
    /\ url # ""
    /\ \/ StartsWith(url, "wix:image://")
       \/ Contains(url, "\"slug\"")
       \/ StartsWith(url, "{") /\ EndsWith(url, "}")
       \/ StartsWith(url, "[") /\ EndsWith(url, "]")
       \/ Contains(url, "wixstatic.com")

\* media_id, from the parts of the URI between the scheme and the '#'.
MediaIdOf(parts) == IF parts[1] = "v1" /\ Len(parts) >= 2 THEN parts[2] ELSE parts[1]

\* A plausible slip: the suffix is appended to ids that end in mv2 only, the
\* last branch being left out.
MediaIdUrlMv2Only(media_id) ==
    IF StartsWith(media_id, "shapes_")
    THEN ShapesBase \o Replace(media_id, "shapes_", "") \o ".svg"
    ELSE IF IsBareMv2(media_id) /\ ~Contains(media_id, "~")
    THEN MediaBase \o media_id \o "~mv2.jpg"
    ELSE IF IsHexMv2(media_id) /\ ~Contains(media_id, "~")
    THEN MediaBase \o media_id \o "~mv2.jpg"
    ELSE MediaBase \o media_id

\* The URL convert_wix_media_url builds for a media_id.
MediaIdUrl(media_id) ==
    IF StartsWith(media_id, "shapes_")
    THEN ShapesBase \o Replace(media_id, "shapes_", "") \o ".svg"
    ELSE IF IsBareMv2(media_id) /\ ~Contains(media_id, "~")
    THEN MediaBase \o media_id \o "~mv2.jpg"
    ELSE IF IsHexMv2(media_id) /\ ~Contains(media_id, "~")
    THEN MediaBase \o media_id \o "~mv2.jpg"
    ELSE IF ~(Contains(media_id, "~mv2") \/ HasImageExtension(media_id))
    THEN MediaBase \o media_id \o "~mv2.jpg"
    ELSE MediaBase \o media_id

\* The tail of convert_wix_media_url, for a value that starts with wix:image://.
ConvertImageUri(wix_url) ==
    MediaIdUrl(MediaIdOf(Split(Split(Replace(wix_url, "wix:image://", ""), "#")[1], "/")))

\* A plausible slip: the suffix goes to every slug without marker or extension.
ConvertSlugAnyShape(slug) ==
    IF ~(Contains(slug, "~mv2") \/ HasImageExtension(slug))
    THEN MediaBase \o slug \o "~mv2.jpg"
    ELSE MediaBase \o slug

\* The slug rule of convert_wix_media_url.
ConvertSlug(slug) ==
    IF ~(Contains(slug, "~mv2") \/ HasImageExtension(slug)) /\ IsHexId(slug)
    THEN MediaBase \o slug \o "~mv2.jpg"
    ELSE MediaBase \o slug

\* The branches of convert_wix_media_url, given what its two regex searches
\* for "uri" and "slug" capture.
ConvertMediaBranches(wix_url, uri, slug) ==
    LET json == StartsWith(wix_url, "[") \/ StartsWith(wix_url, "{")
    IN IF wix_url = "" THEN wix_url
       ELSE IF StartsWith(wix_url, "http://") \/ StartsWith(wix_url, "https://") THEN wix_url
       ELSE IF json /\ uri # "" /\ StartsWith(uri, "wix:image://") THEN ConvertImageUri(uri)
       ELSE IF json /\ uri # "" /\ StartsWith(uri, "http") THEN uri
       ELSE IF json /\ Contains(wix_url, "\"slug\"") /\ slug # "" THEN ConvertSlug(slug)
       ELSE IF ~StartsWith(wix_url, "wix:image://") THEN wix_url
       ELSE ConvertImageUri(wix_url)

\* convert_wix_media_url, for a str argument.
convert_wix_media_url(wix_url) ==
    ConvertMediaBranches(wix_url, JsonKeyMatch(wix_url, "uri"), JsonKeyMatch(wix_url, "slug"))

-----------------------------------------------------------------------------
(* json.loads and json.dumps, for text without escape sequences and numbers *)
(* without sign, fraction or exponent                                       *)

JsonWs == {" ", "\t", "\n", "\r"}
JsonControl == {"\t", "\n", "\r", "\f", "\\"}

JStr(x) == [k |-> "str", v |-> x, items |-> <<>>]
JNum(x) == [k |-> "num", v |-> x, items |-> <<>>]
JLit(x) == [k |-> "lit", v |-> x, items |-> <<>>]
JArr(xs) == [k |-> "arr", v |-> "", items |-> xs]
JObj(pairs) == [k |-> "obj", v |-> "", items |-> pairs]

JFail == [ok |-> FALSE, pos |-> 0, val |-> JLit("null")]
JOk(p, x) == [ok |-> TRUE, pos |-> p, val |-> x]

\* `key in d`, d[key] and d[key] = val for a dict kept as a sequence of pairs in
\* insertion order.
DictHas(pairs, key) == \E i \in 1..Len(pairs) : pairs[i].key = key
DictGet(pairs, key) == pairs[CHOOSE i \in 1..Len(pairs) : pairs[i].key = key].val
\* A plausible slip: a key that is present keeps its value (dict.setdefault).
DictPutFirst(pairs, key, val) ==
    IF DictHas(pairs, key) THEN pairs ELSE Append(pairs, [key |-> key, val |-> val])

DictPut(pairs, key, val) ==
    IF DictHas(pairs, key)
    THEN [i \in 1..Len(pairs) |-> IF pairs[i].key = key THEN [key |-> key, val |-> val] ELSE pairs[i]]
    ELSE Append(pairs, [key |-> key, val |-> val])

RECURSIVE SkipWs(_, _)
SkipWs(s, i) == IF i <= Len(s) /\ At(s, i) \in JsonWs THEN SkipWs(s, i + 1) ELSE i

RECURSIVE DigitsEnd(_, _)
DigitsEnd(s, i) == IF i <= Len(s) /\ At(s, i) \in Digits THEN DigitsEnd(s, i + 1) ELSE i

ParseString(s, i) ==
    LET j == Find(s, "\"", i + 1)
        body == SubSeq(s, i + 1, j - 1)
    IN IF j = 0 \/ \E c \in JsonControl : Contains(body, c) THEN JFail
       ELSE JOk(j + 1, JStr(body))

ParseNumber(s, i) ==
    LET j == IF At(s, i) = "0" THEN i + 1 ELSE DigitsEnd(s, i)
    IN JOk(j, JNum(SubSeq(s, i, j - 1)))

RECURSIVE ParseValue(_, _)
RECURSIVE ParseElems(_, _, _)
RECURSIVE ParsePairs(_, _, _)
RECURSIVE ElemsNext(_, _, _)
RECURSIVE ElemsAfter(_, _, _)
RECURSIVE PairsNext(_, _, _)
RECURSIVE PairsValue(_, _, _, _)
RECURSIVE PairsColon(_, _, _, _)
RECURSIVE PairsKey(_, _, _)

ParseArray(s, i) ==
    LET j == SkipWs(s, i + 1)
    IN IF At(s, j) = "]" THEN JOk(j + 1, JArr(<<>>)) ELSE ParseElems(s, j, <<>>)

ParseObject(s, i) ==
    LET j == SkipWs(s, i + 1)
    IN IF At(s, j) = "}" THEN JOk(j + 1, JObj(<<>>)) ELSE ParsePairs(s, j, <<>>)

ParseValue(s, i) ==
    LET c == At(s, i)
    IN IF i > Len(s) THEN JFail
       ELSE IF c = "\"" THEN ParseString(s, i)
       ELSE IF c = "{" THEN ParseObject(s, i)
       ELSE IF c = "[" THEN ParseArray(s, i)
       ELSE IF c \in Digits THEN ParseNumber(s, i)
       ELSE IF \E w \in {"null", "true", "false"} : OccursAt(s, w, i)
       THEN LET w == CHOOSE w \in {"null", "true", "false"} : OccursAt(s, w, i)
            IN JOk(i + Len(w), JLit(w))
       ELSE JFail

ElemsNext(s, acc, k) ==
    IF At(s, k) = "," THEN ParseElems(s, SkipWs(s, k + 1), acc)
    ELSE IF At(s, k) = "]" THEN JOk(k + 1, JArr(acc))
    ELSE JFail

ElemsAfter(s, acc, r) ==
    IF ~r.ok THEN JFail ELSE ElemsNext(s, Append(acc, r.val), SkipWs(s, r.pos))

\* The elements of an array from position j on, acc holding those before.
ParseElems(s, j, acc) == ElemsAfter(s, acc, ParseValue(s, j))

PairsNext(s, acc, k) ==
    IF At(s, k) = "," THEN ParsePairs(s, SkipWs(s, k + 1), acc)
    ELSE IF At(s, k) = "}" THEN JOk(k + 1, JObj(acc))
    ELSE JFail

PairsValue(s, acc, key, r) ==
    IF ~r.ok THEN JFail ELSE PairsNext(s, DictPut(acc, key, r.val), SkipWs(s, r.pos))

PairsColon(s, acc, key, k) ==
    IF At(s, k) # ":" THEN JFail
    ELSE PairsValue(s, acc, key, ParseValue(s, SkipWs(s, k + 1)))

PairsKey(s, acc, ks) ==
    IF ~ks.ok THEN JFail ELSE PairsColon(s, acc, ks.val.v, SkipWs(s, ks.pos))

\* The members of an object from position j on, acc holding those before.
ParsePairs(s, j, acc) ==
    PairsKey(s, acc, IF At(s, j) = "\"" THEN ParseString(s, j) ELSE JFail)

WholeText(s, r) == IF r.ok /\ SkipWs(s, r.pos) = Len(s) + 1 THEN r ELSE JFail

\* json.loads(s): ok is FALSE for a JSONDecodeError.
json_loads(s) == WholeText(s, ParseValue(s, SkipWs(s, 1)))

RECURSIVE json_dumps(_)
RECURSIVE DumpItems(_)
RECURSIVE DumpPairs(_)

DumpItems(xs) ==
    IF Len(xs) = 0 THEN ""
    ELSE IF Len(xs) = 1 THEN json_dumps(xs[1])
    ELSE json_dumps(xs[1]) \o ", " \o DumpItems(Tail(xs))

DumpPairs(ps) ==
    LET one(p) == "\"" \o p.key \o "\": " \o json_dumps(p.val)
    IN IF Len(ps) = 0 THEN ""
       ELSE IF Len(ps) = 1 THEN one(ps[1])
       ELSE one(ps[1]) \o ", " \o DumpPairs(Tail(ps))

\* json.dumps(x), with its default separators ", " and ": ".
json_dumps(x) ==
    CASE x.k = "str" -> "\"" \o x.v \o "\""
      [] x.k = "arr" -> "[" \o DumpItems(x.items) \o "]"
      [] x.k = "obj" -> "{" \o DumpPairs(x.items) \o "}"
      [] OTHER -> x.v

-----------------------------------------------------------------------------
(* convert_wix_url_field *)

\* The gallery loop's first step for one element: its dict after a Wix src
\* is rewritten.
GalleryItemSrc(d) ==
    IF DictHas(d, "src") /\ DictGet(d, "src").k = "str" /\ is_wix_media_url(DictGet(d, "src").v)
    THEN DictPut(d, "src", JStr(convert_wix_media_url(DictGet(d, "src").v)))
    ELSE d

\* The gallery loop's second step: a src built from the slug. ok is FALSE when
\* the step raises (a slug or src that is not a str has no startswith).
GalleryItemSlug(item, d, d1) ==
    LET slug == DictGet(d, "slug")
        src1 == DictGet(d1, "src")
    IN IF ~DictHas(d, "slug") THEN [ok |-> TRUE, val |-> JObj(d1)]
       ELSE IF slug.k # "str" THEN [ok |-> FALSE, val |-> item]
       ELSE IF StartsWith(slug.v, "http") \/ ~IsGallerySlug(slug.v) THEN [ok |-> TRUE, val |-> JObj(d1)]
       ELSE IF ~DictHas(d1, "src") THEN [ok |-> TRUE, val |-> JObj(DictPut(d1, "src", JStr(MediaBase \o slug.v)))]
       ELSE IF src1.k # "str" THEN [ok |-> FALSE, val |-> item]
       ELSE IF ~StartsWith(src1.v, "http") THEN [ok |-> TRUE, val |-> JObj(DictPut(d1, "src", JStr(MediaBase \o slug.v)))]
       ELSE [ok |-> TRUE, val |-> JObj(d1)]

\* The body of the gallery loop for one element.
ConvertGalleryItem(item) ==
    IF item.k # "obj" THEN [ok |-> TRUE, val |-> item]
    ELSE GalleryItemSlug(item, item.items, GalleryItemSrc(item.items))

GalleryDump(value, conv) ==
    IF \E i \in 1..Len(conv) : ~conv[i].ok THEN value
    ELSE json_dumps(JArr([i \in 1..Len(conv) |-> conv[i].val]))

GalleryLoop(value, r) ==
    IF ~r.ok THEN value
    ELSE GalleryDump(value, [i \in 1..Len(r.val.items) |-> ConvertGalleryItem(r.val.items[i])])

\* The '[' branch of an array field: the re-serialized gallery, or the value
\* as it was when it does not parse or an element raises.
ConvertGallery(value) == GalleryLoop(value, json_loads(value))

\* The comma-separated branch of an array field.
ConvertCommaList(value) ==
    LET raw == Split(value, ",")
        urls == [i \in 1..Len(raw) |-> Strip(raw[i])]
        converted_urls == [i \in 1..Len(urls) |->
            IF is_wix_media_url(urls[i]) THEN convert_wix_media_url(urls[i]) ELSE urls[i]]
    IN Join(converted_urls, ",")

ContentStop == Whitespace \cup {"\"", "'", "<", ">"}

RECURSIVE RunEnd(_, _)
\* The end of the run of [^\s"'<>] characters that starts at i.
RunEnd(s, i) == IF i <= Len(s) /\ At(s, i) \notin ContentStop THEN RunEnd(s, i + 1) ELSE i

RECURSIVE ReplaceEmbedded(_)
\* re.sub(r'wix:image://[^\s"\'<>]+', replace_wix_url, value)
ReplaceEmbedded(s) ==
    LET P == "wix:image://"
        hits == {i \in 1..Len(s) : OccursAt(s, P, i) /\ RunEnd(s, i + Len(P)) > i + Len(P)}
        i == MinOf(hits)
        e == RunEnd(s, i + Len(P))
    IN IF hits = {} THEN s
       ELSE SubSeq(s, 1, i - 1) \o convert_wix_media_url(SubSeq(s, i, e - 1))
                \o ReplaceEmbedded(SubSeq(s, e, Len(s)))

FieldKinds == {"single", "array", "document", "content"}

\* A plausible slip: any comma makes the value a list.
IsCommaListAnyComma(value) == Contains(value, ",")

\* `',' in value and 'wix:' in value`
IsCommaList(value) == Contains(value, ",") /\ Contains(value, "wix:")

convert_wix_url_field(value, field_type) ==
    LET s == value.s
    IN IF ~Truthy(value) \/ value.t # "str" THEN value
       ELSE IF field_type = "single" \/ field_type = "document"
       THEN IF is_wix_media_url(s) THEN PyStr(convert_wix_media_url(s)) ELSE value
       ELSE IF field_type = "array"
       THEN IF StartsWith(s, "[") THEN PyStr(ConvertGallery(s))
            ELSE IF StartsWith(s, "{")
            THEN IF Contains(s, "\"slug\"") THEN PyStr(convert_wix_media_url(s)) ELSE value
            ELSE IF IsCommaList(s) THEN PyStr(ConvertCommaList(s))
            ELSE IF is_wix_media_url(s) THEN PyStr(convert_wix_media_url(s))
            ELSE value
       ELSE IF field_type = "content"
       THEN IF Contains(s, "wix:image://") \/ Contains(s, "wixstatic.com")
            THEN PyStr(ReplaceEmbedded(s))
            ELSE value
       ELSE value

-----------------------------------------------------------------------------
(* AmplifyDataMigrator: scalar coercion *)

RECURSIVE Keep(_, _)
\* s with the characters outside C removed: re.sub(r'[^...]', '', s).
Keep(s, C) ==
    IF s = "" THEN ""
    ELSE (IF At(s, 1) \in C THEN At(s, 1) ELSE "") \o Keep(SubSeq(s, 2, Len(s)), C)

DigitString == "0123456789"

RECURSIVE StrToNat(_)
\* int(s) for a string of digits ("" is 0).
StrToNat(s) ==
    IF s = "" THEN 0
    ELSE 10 * StrToNat(SubSeq(s, 1, Len(s) - 1)) + (Find(DigitString, At(s, Len(s)), 1) - 1)

RECURSIVE NatToStr(_)
NatToStr(n) == IF n < 10 THEN At(DigitString, n + 1) ELSE NatToStr(n \div 10) \o At(DigitString, (n % 10) + 1)

\* str(n) for an int.
IntToStr(n) == IF n < 0 THEN "-" \o NatToStr(0 - n) ELSE NatToStr(n)

\* The numerals float() and Decimal() both accept among the strings of digits,
\* '.' and '-': an optional sign, then digits with at most one point.
IsNumeral(c) ==
    LET body == IF StartsWith(c, "-") THEN SubSeq(c, 2, Len(c)) ELSE c
    IN /\ AllIn(body, Digits \cup {"."})
       /\ Len(Split(body, ".")) <= 2
       /\ \E i \in 1..Len(body) : At(body, i) \in Digits

\* int(float(c)) and int(Decimal(c)) of a numeral: truncation towards zero.
Truncate(c) ==
    LET neg == StartsWith(c, "-")
        body == IF neg THEN SubSeq(c, 2, Len(c)) ELSE c
        whole == StrToNat(Split(body, ".")[1])
    IN IF neg THEN 0 - whole ELSE whole

\* Decimal(c) % 1 == 0
IsWhole(c) ==
    LET parts == Split(c, ".")
    IN Len(parts) = 1 \/ AllIn(parts[2], {"0"})

\* The leftmost match of
\*   [a-zA-Z0-9._%+-]+[@%40][a-zA-Z0-9.-]+\.[a-zA-Z]{2,}
\* in s, "" when there is none: the regex engine takes the first start, then the
\* longest local part, then the longest domain for which the rest matches.
EmailSearch(s) ==
    LET Alnum == LowerSet \cup UpperSet \cup Digits
        Local == Alnum \cup {".", "_", "%", "+", "-"}
        Sep == {"@", "%", "4", "0"}
        Domain == Alnum \cup {".", "-"}
        Letters == LowerSet \cup UpperSet
        run(i, C) == IF i > Len(s) THEN 0 ELSE MinOf({j \in i..(Len(s) + 1) : At(s, j) \notin C}) - i
        ok(i, l, d) ==
            /\ At(s, i + l) \in Sep
            /\ At(s, i + l + 1 + d) = "."
            /\ run(i + l + d + 2, Letters) >= 2
        hits == {i \in 1..Len(s) : \E l \in 1..run(i, Local) : \E d \in 1..run(i + l + 1, Domain) : ok(i, l, d)}
        i0 == MinOf(hits)
        l0 == 0 - MinOf({0 - l : l \in {l \in 1..run(i0, Local) : \E d \in 1..run(i0 + l + 1, Domain) : ok(i0, l, d)}})
        d0 == 0 - MinOf({0 - d : d \in {d \in 1..run(i0 + l0 + 1, Domain) : ok(i0, l0, d)}})
        e0 == i0 + l0 + d0 + 1 + run(i0 + l0 + d0 + 2, Letters)
    IN IF hits = {} THEN "" ELSE SubSeq(s, i0, e0)

\* re.match(r'^[a-zA-Z0-9._%+-]+@[a-zA-Z0-9.-]+\.[a-zA-Z]{2,}$', email)
IsValidEmail(email) ==
    LET Alnum == LowerSet \cup UpperSet \cup Digits
        at == Find(email, "@", 1)
        rest == SubSeq(email, at + 1, Len(email))
        dots == {i \in 1..Len(rest) : At(rest, i) = "."}
        dot == 0 - MinOf({0 - i : i \in dots})
    IN /\ at > 1
       /\ AllIn(SubSeq(email, 1, at - 1), Alnum \cup {".", "_", "%", "+", "-"})
       /\ dots # {}
       /\ dot > 1
       /\ AllIn(SubSeq(rest, 1, dot - 1), Alnum \cup {".", "-"})
       /\ Len(rest) - dot >= 2
       /\ AllIn(SubSeq(rest, dot + 1, Len(rest)), LowerSet \cup UpperSet)

clean_email_value(value) ==
    LET s == value.s
        found == EmailSearch(s)
        email == Replace(found, "%40", "@")
    IN IF ~Truthy(value) \/ value.t # "str" THEN value
       ELSE IF (Contains(s, "%40") \/ Contains(s, "@")) /\ found # "" /\ IsValidEmail(email)
       THEN PyStr(email)
       ELSE IF StartsWith(s, "/") THEN None ELSE value

clean_url_value(value) ==
    LET s == value.s
    IN IF ~Truthy(value) \/ value.t # "str" THEN value
       ELSE IF StartsWith(s, "http://") \/ StartsWith(s, "https://") \/ StartsWith(s, "ftp://") THEN value
       ELSE IF StartsWith(s, "www.") THEN PyStr("https://" \o s)
       ELSE None

TrueWords == {"true", "1", "yes", "on"}

convert_boolean_value(value) ==
    IF value.t = "bool" THEN value
    ELSE IF value.t = "str" THEN PyBool(Lower(value.s) \in TrueWords)
    ELSE IF value.t = "int" THEN PyBool(value.n # 0)
    ELSE PyBool(FALSE)

\* A plausible slip: the text left after cleaning is parsed without the check
\* that something is left of it.
ConvertNumericTextUnchecked(value, target_type) ==
    LET cleaned == Keep(value.s, Digits \cup {".", "-"})
    IN IF target_type = "integer"
       THEN IF IsNumeral(cleaned) THEN PyInt(Truncate(cleaned)) ELSE value
       ELSE IF IsNumeral(cleaned) THEN PyDec(cleaned) ELSE Raised("InvalidOperation")

\* The str branch of convert_numeric_value once the text is known not to be blank.
ConvertNumericText(value, target_type) ==
    LET cleaned == Keep(value.s, Digits \cup {".", "-"})
    IN IF cleaned = "" \/ cleaned = "-" \/ cleaned = "." THEN None
       ELSE IF target_type = "integer"
       THEN IF IsNumeral(cleaned) THEN PyInt(Truncate(cleaned)) ELSE value
       ELSE IF IsNumeral(cleaned) THEN PyDec(cleaned) ELSE Raised("InvalidOperation")

\* convert_numeric_value for target_type 'integer' or 'decimal'.  A result of
\* type "raise" is an exception that leaves the function: decimal.InvalidOperation
\* is not among the exceptions the function catches.
convert_numeric_value(value, target_type) ==
    IF value.t = "none" \/ value = PyStr("") THEN None
    ELSE IF value.t = "decimal"
    THEN IF target_type = "integer" THEN PyInt(Truncate(value.s)) ELSE value
    ELSE IF value.t = "str"
    THEN IF Strip(value.s) = "" THEN None ELSE ConvertNumericText(value, target_type)
    ELSE IF value.t = "int"
    THEN IF target_type = "integer" THEN value ELSE PyDec(IntToStr(value.n))
    ELSE IF value.t = "bool"
    THEN IF target_type = "integer" THEN PyInt(value.n) ELSE Raised("InvalidOperation")
    ELSE value

-----------------------------------------------------------------------------
(* AmplifyDataMigrator: configuration tables of __init__ *)

\* self.field_mappings.get(table_base_name, {}) as a set of <<old, new>> pairs.
field_mappings(table_base_name) ==
    CASE table_base_name = "Legal" -> {<<"12LegalDocumentId", "legalDocumentId">>}
      [] table_base_name = "Projects" ->
            {<<"Project Manager Email List", "projectManagerEmailList">>,
             <<"Project Manager Phone", "projectManagerPhone">>,
             <<"Visitor ID", "visitorId">>,
             <<"Quote ID", "quoteId">>}
      [] table_base_name = "Requests" ->
            {<<"Uploded Documents", "uploadedDocuments">>,
             <<"Requested Slot", "requestedSlot">>}
      [] OTHER -> {}

\* self.exclude_fields.get(table_base_name, [])
exclude_fields(table_base_name) ==
    IF table_base_name = "Projects" THEN {"item04Projects"} ELSE {}

integer_fields ==
    {"numEmployees", "order", "floors", "yearBuilt", "quoteNumber",
     "openEscrowWithinDays", "accountExecutive", "bedrooms", "bathrooms"}

decimal_fields ==
    {"accounting", "order", "paymentAmount", "sizeSqft", "originalValue", "listingPrice",
     "salePrice", "boostPrice", "boosterEstimatedCost", "boosterActualCost", "addedValue",
     "revShareAmount", "loanBalance", "budget", "totalCost", "totalPrice",
     "projectedListingPrice", "creditScore", "quantity", "marginPercent", "cost", "price",
     "statusOrder", "bedrooms", "bathrooms", "openEscrowWithinDays", "accountExecutive"}

boolean_fields ==
    {"hash", "sendEmailNotifications", "sendSmsNotifications", "active", "live",
     "projectRemnantList", "isPrivate", "isComplete", "isCategory", "isInternal",
     "internal", "paid", "permissions", "excludeFromDashboard", "permissionPublic",
     "permissionPrivateRoles", "permissionPrivateUsers", "archived", "signed",
     "operationManagerApproved", "underwritingApproved", "needFinance",
     "itemCompleted", "recommendItem"}

string_fields ==
    {"zip", "phone", "mobile", "license", "invoiceNumber", "unitPrice", "total",
     "bedrooms", "bathrooms", "floors", "sizeSqft", "yearBuilt"}

email_fields ==
    {"email", "slaCompanyEmail", "agentEmail", "projectManagerEmailList",
     "homeownerEmail", "memberEmail"}

url_fields ==
    {"redfinLink", "zillowLink", "pdfGeneratorUrl", "quotePdfUrl", "quoteUrl",
     "linkProjects1Title2", "link04ProjectsTitle", "contractUrl", "linkSla2Name",
     "initialsPublicUrl", "signaturePublicUrl", "signedPdfGeneratorUrl",
     "signedQuotePdfPublicUrl"}

single_wix_urls ==
    {"initialsWixUrl", "signatureWixUrl", "image", "statusImage",
     "postedByProfileImage", "addToGallery"}

array_wix_urls ==
    {"gallery", "images", "documents", "files", "uploadedMedia", "uploadedVideos",
     "uploadedDocuments"}

document_wix_fields ==
    {"document", "signedDocument", "signature", "initials", "documentData",
     "signedContracts"}

content_wix_fields == {"body", "content"}

-----------------------------------------------------------------------------
(* AmplifyDataMigrator.transform_item *)

\* A plausible slip: the rename map alone, without the 'ID' special case.
NewFieldNameMapOnly(field, table_base_name) ==
    LET fm == field_mappings(table_base_name)
    IN IF \E p \in fm : p[1] = field
       THEN (CHOOSE p \in fm : p[1] = field)[2]
       ELSE field

\* field_map.get(field, field), then the 'ID' special case.
NewFieldName(field, table_base_name) ==
    LET fm == field_mappings(table_base_name)
        mapped == IF \E p \in fm : p[1] = field
                  THEN (CHOOSE p \in fm : p[1] = field)[2]
                  ELSE field
    IN IF field = "ID" THEN "id" ELSE mapped

\* str(value)
PyStrOf(value) ==
    CASE value.t = "str" -> value.s
      [] value.t = "int" -> IntToStr(value.n)
      [] value.t = "bool" -> IF value.n = 1 THEN "True" ELSE "False"
      [] value.t = "none" -> "None"
      [] OTHER -> value.s

\* A plausible slip: no try block around the conversion, so the exception
\* leaves transform_item in place of a value.
UncaughtNumeric(value, target_type) == convert_numeric_value(value, target_type)

\* A numeric conversion inside the try block of transform_item: an exception that
\* leaves convert_numeric_value is caught there and the value stays as it was.
CaughtNumeric(value, target_type) ==
    LET r == convert_numeric_value(value, target_type)
    IN IF r.t = "raise" THEN value ELSE r

\* The field_type transform_item hands to convert_wix_url_field for a Wix URL
\* field: the first branch of the elif chain the field is in.
WixFieldType(new_field) ==
    IF new_field \in single_wix_urls THEN "single"
    ELSE IF new_field \in array_wix_urls THEN "array"
    ELSE IF new_field \in document_wix_fields THEN "document"
    ELSE "content"

\* The try block of transform_item for one non-empty value: skip is TRUE for
\* `continue` (the field is left out), val is what is stored otherwise.
TransformValue(new_field, value) ==
    LET keep(v) == [skip |-> FALSE, val |-> v]
        drop == [skip |-> TRUE, val |-> value]
        cleaned_email == clean_email_value(value)
        cleaned_url == clean_url_value(value)
    IN IF new_field \in boolean_fields THEN keep(convert_boolean_value(value))
       ELSE IF new_field \in integer_fields THEN keep(CaughtNumeric(value, "integer"))
       ELSE IF new_field \in decimal_fields THEN keep(CaughtNumeric(value, "decimal"))
       ELSE IF new_field \in email_fields
       THEN IF cleaned_email # None THEN keep(cleaned_email) ELSE drop
       ELSE IF new_field \in single_wix_urls \cup array_wix_urls \cup document_wix_fields \cup content_wix_fields
       THEN keep(convert_wix_url_field(value, WixFieldType(new_field)))
       ELSE IF new_field \in url_fields
       THEN IF cleaned_url # None THEN keep(cleaned_url) ELSE drop
       ELSE IF new_field \in string_fields THEN keep(PyStr(PyStrOf(value)))
       ELSE IF value.t = "decimal"
       THEN IF IsWhole(value.s) THEN keep(PyInt(Truncate(value.s)))
            ELSE keep([t |-> "float", s |-> value.s, n |-> 0, u |-> ""])
       ELSE keep(value)

\* The end of the loop body for a non-empty value: `continue` leaves the
\* field out, otherwise transformed_item[new_field] is set.
PutTransformed(transformed_item, new_field, r) ==
    IF r.skip THEN transformed_item ELSE DictPut(transformed_item, new_field, r.val)

\* A plausible slip: the loop body without its exclusion test.
TransformFieldAll(transformed_item, field, value, table_base_name) ==
    LET new_field == NewFieldName(field, table_base_name)
    IN IF value.t = "none" \/ value = PyStr("") THEN DictPut(transformed_item, new_field, None)
       ELSE PutTransformed(transformed_item, new_field, TransformValue(new_field, value))

\* One pass of the loop body of transform_item over the pair (field, value):
\* the dict transformed_item after it.
TransformField(transformed_item, field, value, table_base_name) ==
    LET new_field == NewFieldName(field, table_base_name)
    IN IF field \in exclude_fields(table_base_name) THEN transformed_item
       ELSE IF value.t = "none" \/ value = PyStr("") THEN DictPut(transformed_item, new_field, None)
       ELSE PutTransformed(transformed_item, new_field, TransformValue(new_field, value))

-----------------------------------------------------------------------------
(* AmplifyDataMigrator: migrate_table_data and run_migration *)

\* transform_item: the loop over the fields of item, from the k-th on.
RECURSIVE TransformFrom(_, _, _, _)
TransformFrom(transformed_item, item, k, table_base_name) ==
    IF k > Len(item) THEN transformed_item
    ELSE TransformFrom(TransformField(transformed_item, item[k].key, item[k].val, table_base_name),
                       item, k + 1, table_base_name)

transform_item(item, table_base_name) == TransformFrom(<<>>, item, 1, table_base_name)

\* The DynamoDB batch write limit of migrate_table_data.
batch_size == 25

\* table_mapping of run_migration, as table base names: two of the tables.
table_mapping == <<"Projects", "Contacts">>

\* migration_stats as run_migration resets them.
NoStats ==
    [total_tables |-> 0, successful_tables |-> 0, failed_tables |-> 0,
     total_records |-> 0, successful_records |-> 0, failed_records |-> 0]

\* The table after put_item(Item=item): an item with the same id is replaced.
PutItem(table, item) ==
    IF \E i \in 1..Len(table) : DictGet(table[i], "id") = DictGet(item, "id")
    THEN [i \in 1..Len(table) |-> IF DictGet(table[i], "id") = DictGet(item, "id") THEN item ELSE table[i]]
    ELSE Append(table, item)

\* The counters and batch_requests after one item of a batch, transformed to
\* transformed_item: without an id the item is counted failed and skipped.
CountItem(acc, transformed_item, dry) ==
    IF ~DictHas(transformed_item, "id") THEN [acc EXCEPT !.failed_items = @ + 1]
    ELSE [acc EXCEPT !.successful_items = @ + 1,
                     !.batch_requests = IF dry THEN @ ELSE Append(@, transformed_item)]

\* The inner loop of migrate_table_data over the items of a batch.
RECURSIVE BatchLoop(_, _, _, _, _)
BatchLoop(acc, batch, k, table_base_name, dry) ==
    IF k > Len(batch) THEN acc
    ELSE BatchLoop(CountItem(acc, transform_item(batch[k], table_base_name), dry),
                   batch, k + 1, table_base_name, dry)

\* The put_item loop over batch_requests: it stops at the first put that
\* raises; the items put before it are in the table.
RECURSIVE PutLoop(_, _, _)
PutLoop(target, requests, bad) ==
    IF requests = <<>> THEN [target |-> target, raised |-> FALSE]
    ELSE IF DictGet(Head(requests), "id") \in bad THEN [target |-> target, raised |-> TRUE]
    ELSE PutLoop(PutItem(target, Head(requests)), Tail(requests), bad)

\* A plausible slip: a failed batch write is added to failed_items and left
\* in successful_items.
AfterWriteFailedOnly(acc, w) ==
    [acc EXCEPT !.target = w.target,
                !.batch_requests = <<>>,
                !.errors = IF w.raised THEN Append(@, "Error writing batch") ELSE @,
                !.failed_items = IF w.raised THEN @ + Len(acc.batch_requests) ELSE @]

\* The end of a batch: the except branch of the batch write moves the whole
\* batch from successful_items to failed_items.
AfterWrite(acc, w) ==
    [acc EXCEPT !.target = w.target,
                !.batch_requests = <<>>,
                !.errors = IF w.raised THEN Append(@, "Error writing batch") ELSE @,
                !.failed_items = IF w.raised THEN @ + Len(acc.batch_requests) ELSE @,
                !.successful_items = IF w.raised THEN @ - Len(acc.batch_requests) ELSE @]

\* "if not dry_run and batch_requests": the batch write, or nothing.
WriteBatch(acc, dry, bad) ==
    IF ~dry /\ acc.batch_requests # <<>> THEN AfterWrite(acc, PutLoop(acc.target, acc.batch_requests, bad))
    ELSE [acc EXCEPT !.batch_requests = <<>>]

\* The outer loop of migrate_table_data, from the batch that starts at item i.
RECURSIVE MigrateBatches(_, _, _, _, _, _)
MigrateBatches(acc, items, i, table_base_name, dry, bad) ==
    IF i > Len(items) THEN acc
    ELSE MigrateBatches(
            WriteBatch(BatchLoop(acc, SubSeq(items, i, IF i + batch_size - 1 < Len(items) THEN i + batch_size - 1 ELSE Len(items)),
                                 1, table_base_name, dry),
                       dry, bad),
            items, i + batch_size, table_base_name, dry, bad)

\* migration_result next to the target table (the record also carries the
\* local batch_requests).
MigrationResult(target, total) ==
    [target |-> target, total_items |-> total, successful_items |-> 0, failed_items |-> 0,
     errors |-> <<>>, batch_requests |-> <<>>]

\* migrate_table_data: scan_raises says whether the scan of the source raises,
\* bad holds the ids whose put_item raises.
migrate_table_data(target, items, table_base_name, dry, scan_raises, bad) ==
    IF scan_raises THEN [MigrationResult(target, 0) EXCEPT !.errors = <<"scan">>]
    ELSE MigrateBatches(MigrationResult(target, Len(items)), items, 1, table_base_name, dry, bad)

\* The "Update stats" block of run_migration for the result of one table.
UpdateStats(st, res) ==
    [st EXCEPT !.total_records = @ + res.total_items,
               !.successful_records = @ + res.successful_items,
               !.failed_records = @ + res.failed_items,
               !.successful_tables = IF res.failed_items = 0 THEN @ + 1 ELSE @,
               !.failed_tables = IF res.failed_items = 0 THEN @ ELSE @ + 1]

-----------------------------------------------------------------------------
(* AmplifyDataMigrator: convert_existing_wix_urls and restore_from_backup *)

\* item_updates has no entry for the field.
NoUpdate == [has |-> FALSE, val |-> "", n |-> 0]

\* conversion_count of one dict of a gallery array: one for a Wix src, one
\* for a src built from the slug.
ElementConversions(d) ==
    (IF DictHas(d, "src") /\ DictGet(d, "src").k = "str" /\ is_wix_media_url(DictGet(d, "src").v) THEN 1 ELSE 0)
    + (IF GalleryItemSlug(JObj(d), d, GalleryItemSrc(d)).val # JObj(GalleryItemSrc(d)) THEN 1 ELSE 0)

RECURSIVE SumConversions(_)
SumConversions(elems) ==
    IF elems = <<>> THEN 0
    ELSE (IF Head(elems).k = "obj" THEN ElementConversions(Head(elems).items) ELSE 0) + SumConversions(Tail(elems))

\* The update of a field that holds a JSON array: none when an element
\* raises or nothing was converted.
GalleryUpdate(elems, conv) ==
    IF \E i \in 1..Len(conv) : ~conv[i].ok THEN NoUpdate
    ELSE IF SumConversions(elems) = 0 THEN NoUpdate
    ELSE [has |-> TRUE, val |-> json_dumps(JArr([i \in 1..Len(conv) |-> conv[i].val])), n |-> SumConversions(elems)]

ArrayUpdate(r) ==
    IF ~r.ok \/ r.val.k # "arr" THEN NoUpdate
    ELSE GalleryUpdate(r.val.items, [i \in 1..Len(r.val.items) |-> ConvertGalleryItem(r.val.items[i])])

SingleUpdate(field_value, converted) ==
    IF converted # field_value THEN [has |-> TRUE, val |-> converted, n |-> 1] ELSE NoUpdate

\* item_updates[field] of convert_existing_wix_urls for the value of a field.
WixUrlUpdate(field_value) ==
    IF ~Truthy(field_value) \/ field_value.t # "str" THEN NoUpdate
    ELSE IF StartsWith(field_value.s, "[") THEN ArrayUpdate(json_loads(field_value.s))
    ELSE IF is_wix_media_url(field_value.s) THEN SingleUpdate(field_value.s, convert_wix_media_url(field_value.s))
    ELSE NoUpdate

\* A plausible slip: the update step without its dry_run test.
ConvertRecordAlways(acc, item, u, dry, bad) ==
    IF ~u.has THEN [acc EXCEPT !.table = Append(@, item)]
    ELSE IF DictGet(item, "id") \in bad
         THEN [acc EXCEPT !.table = Append(@, item), !.total_conversions = @ + u.n]
    ELSE [acc EXCEPT !.table = Append(@, DictPut(item, "gallery", PyStr(u.val))),
                     !.total_conversions = @ + u.n, !.total_updated = @ + 1]

\* One record of a table: counted when it needs an update, and updated in
\* the table when the run is live and update_item does not raise.
ConvertRecord(acc, item, u, dry, bad) ==
    IF ~u.has THEN [acc EXCEPT !.table = Append(@, item)]
    ELSE IF dry \/ DictGet(item, "id") \in bad
         THEN [acc EXCEPT !.table = Append(@, item), !.total_conversions = @ + u.n]
    ELSE [acc EXCEPT !.table = Append(@, DictPut(item, "gallery", PyStr(u.val))),
                     !.total_conversions = @ + u.n, !.total_updated = @ + 1]

RECURSIVE ConvertRecords(_, _, _, _)
ConvertRecords(acc, items, dry, bad) ==
    IF items = <<>> THEN acc
    ELSE ConvertRecords(
            ConvertRecord(acc, Head(items),
                          IF DictHas(Head(items), "gallery") THEN WixUrlUpdate(DictGet(Head(items), "gallery")) ELSE NoUpdate,
                          dry, bad),
            Tail(items), dry, bad)

\* convert_existing_wix_urls for Projects, whose target field is gallery (the
\* other conversion targets are tables outside this model): the table after it, next to total_updated and total_conversions.  A scan that raises
\* leaves the table as it is.
convert_existing_wix_urls(table, dry, scan_raises, bad) ==
    IF scan_raises THEN [table |-> table, total_updated |-> 0, total_conversions |-> 0]
    ELSE ConvertRecords([table |-> <<>>, total_updated |-> 0, total_conversions |-> 0], table, dry, bad)

\* The fields clean_restored_item turns back into numbers.
restored_numeric_fields ==
    {"order", "paymentAmount", "sizeSqft", "originalValue", "listingPrice",
     "salePrice", "boostPrice", "addedValue", "accountExecutive"}

\* clean_restored_item for one value: t is "raise" when Decimal(value) raises.
CleanRestoredValue(key, value) ==
    IF value.t # "str" \/ key \notin restored_numeric_fields THEN value
    ELSE IF Contains(value.s, ".")
         THEN (IF IsNumeral(value.s) THEN PyDec(value.s) ELSE Raised("InvalidOperation"))
    ELSE IF value.s # "" /\ AllIn(value.s, Digits) THEN PyInt(StrToNat(value.s))
    ELSE value

clean_restored_item(item) == [i \in 1..Len(item) |-> [key |-> item[i].key, val |-> CleanRestoredValue(item[i].key, item[i].val)]]

CleanRaises(item) == \E i \in 1..Len(item) : CleanRestoredValue(item[i].key, item[i].val).t = "raise"

\* The items the batch writer is handed: the cleaned items, without those
\* whose cleaning raised.
RECURSIVE CleanedItems(_)
CleanedItems(items) ==
    IF items = <<>> THEN <<>>
    ELSE IF CleanRaises(Head(items)) THEN CleanedItems(Tail(items))
    ELSE <<clean_restored_item(Head(items))>> \o CleanedItems(Tail(items))

RECURSIVE PutAll(_, _)
PutAll(table, items) == IF items = <<>> THEN table ELSE PutAll(PutItem(table, Head(items)), Tail(items))

\* The loop body of restore_from_backup for one table of the backup.  Live,
\* the existing items are deleted when "y" is typed and the cleaned items go
\* through one batch writer, whose flush raises when an item is refused: then
\* none of them is written and the table is not counted.
RestoreTable(acc, table_name, entry, cleaned, dry, bad) ==
    IF entry.error \/ table_name \notin DOMAIN acc.store THEN acc
    ELSE IF dry THEN [acc EXCEPT !.total_restored_tables = @ + 1,
                                 !.total_restored_records = @ + Len(entry.items)]
    ELSE IF entry.items = <<>> THEN [acc EXCEPT !.total_restored_tables = @ + 1]
    ELSE IF \E i \in 1..Len(cleaned) : DictGet(cleaned[i], "id") \in bad
         THEN [acc EXCEPT !.store[table_name] = IF entry.clear = "y" THEN <<>> ELSE @]
    ELSE [acc EXCEPT !.store[table_name] = PutAll(IF entry.clear = "y" THEN <<>> ELSE @, cleaned),
                     !.total_restored_tables = @ + 1,
                     !.total_restored_records = @ + Len(cleaned)]

\* restore_from_backup: the loop over table_data.
RECURSIVE RestoreTables(_, _, _, _)
RestoreTables(acc, table_data, dry, bad) ==
    IF table_data = <<>> THEN acc
    ELSE RestoreTables(RestoreTable(acc, Head(table_data).table, Head(table_data),
                                    CleanedItems(Head(table_data).items), dry, bad),
                       Tail(table_data), dry, bad)

restore_from_backup(st, table_data, dry, bad) ==
    RestoreTables([store |-> st, total_restored_tables |-> 0, total_restored_records |-> 0], table_data, dry, bad)

-----------------------------------------------------------------------------
(* AmplifyDataMigrator: the Wix document converter *)

\* is_wix_document_url, for a str argument.
is_wix_document_url(url) == url # "" /\ StartsWith(url, "wix:document://")

\* The record or the error that follows from path_parts.
DocumentOfParts(wix_doc_url, path_parts) ==
    IF Len(path_parts) < 2
    THEN ErrorRecord("Invalid Wix document URL structure: " \o wix_doc_url)
    ELSE DocRecord(path_parts[2], PUBLIC_URL_PREFIX \o path_parts[1])

\* The try block of convert_wix_document_url, from without_prefix on; a
\* ValueError raised in it is caught and becomes {"error": str(e)}.
DocumentOfPath(wix_doc_url, without_prefix) ==
    IF StartsWith(without_prefix, "v1/ugd/")
    THEN DocumentOfParts(wix_doc_url, Split(Replace(without_prefix, "v1/ugd/", ""), "/"))
    ELSE IF StartsWith(without_prefix, "v1/")
    THEN DocumentOfParts(wix_doc_url, Split(Replace(without_prefix, "v1/", ""), "/"))
    ELSE ErrorRecord("Unexpected Wix document URL format: " \o wix_doc_url)

\* convert_wix_document_url, for a str argument: a document record, or an
\* error record for the dict {"error": message}.
convert_wix_document_url(wix_doc_url) ==
    IF ~is_wix_document_url(wix_doc_url) THEN ErrorRecord("Not a valid Wix document URL")
    ELSE DocumentOfPath(wix_doc_url, Replace(wix_doc_url, "wix:document://", ""))

\* The dict of a document record as json.dumps sees it.
DocumentJson(converted) ==
    JObj(<<[key |-> "filename", val |-> JStr(converted.s)],
           [key |-> "documentPublicUrl", val |-> JStr(converted.u)]>>)

\* What the array loop appends for converted, and what it adds to the count.
DocItemResult(doc_item, converted) ==
    IF converted.t # "error" THEN [val |-> DocumentJson(converted), n |-> 1]
    ELSE [val |-> doc_item, n |-> 0]

\* A plausible slip: an element that could not be converted is counted too.
DocItemCounted(doc_item) ==
    IF doc_item.k = "str" /\ is_wix_document_url(doc_item.v)
    THEN [val |-> DocItemResult(doc_item, convert_wix_document_url(doc_item.v)).val, n |-> 1]
    ELSE [val |-> doc_item, n |-> 0]

\* The body of the loop over doc_array for one element.
DocItem(doc_item) ==
    IF doc_item.k = "str" /\ is_wix_document_url(doc_item.v)
    THEN DocItemResult(doc_item, convert_wix_document_url(doc_item.v))
    ELSE [val |-> doc_item, n |-> 0]

RECURSIVE SumCounts(_)
SumCounts(conv) == IF conv = <<>> THEN 0 ELSE conv[1].n + SumCounts(Tail(conv))

\* The end of the array branch: the re-serialized array when something was
\* converted, the field value as it was otherwise.
DocArrayDump(field_value, conv) ==
    IF SumCounts(conv) > 0
    THEN [val |-> PyStr(json_dumps(JArr([i \in 1..Len(conv) |-> conv[i].val]))), n |-> SumCounts(conv)]
    ELSE [val |-> field_value, n |-> 0]

\* The '[' branch for the outcome r of json.loads.  A text that starts with '['
\* and does not parse is no document URL, so the JSONDecodeError handler
\* converts nothing.
DocArray(field_value, r) ==
    IF ~r.ok \/ r.val.k # "arr" THEN [val |-> field_value, n |-> 0]
    ELSE DocArrayDump(field_value, [i \in 1..Len(r.val.items) |-> DocItem(r.val.items[i])])

\* The single-URL branch.  `import json` further down the function (line 1152)
\* makes json a local name, unbound when json.dumps(converted) is reached: the
\* UnboundLocalError is caught by the outer except after conversion_count was
\* set to 1, and the field value is returned as it was.
DocSingle(field_value, converted) ==
    IF converted.t # "error" THEN [val |-> field_value, n |-> 1]
    ELSE [val |-> field_value, n |-> 0]

\* convert_document_field_value: the pair (value, conversion_count).
convert_document_field_value(field_value) ==
    IF ~Truthy(field_value) \/ field_value.t # "str" THEN [val |-> field_value, n |-> 0]
    ELSE IF is_wix_document_url(field_value.s)
    THEN DocSingle(field_value, convert_wix_document_url(field_value.s))
    ELSE IF StartsWith(field_value.s, "[") THEN DocArray(field_value, json_loads(field_value.s))
    ELSE [val |-> field_value, n |-> 0]

-----------------------------------------------------------------------------
(* fix-date-formats.py: DateFormatFixer *)

\* \d{lo,hi}
IsDigitRun(s, lo, hi) == Len(s) >= lo /\ Len(s) <= hi /\ AllIn(s, Digits)

\* ^\d{a}sep\d{b}sep\d{c}$ with a, b, c given as <<lo, hi>>.
DatePattern(parts, a, b, c) ==
    /\ Len(parts) = 3
    /\ IsDigitRun(parts[1], a[1], a[2])
    /\ IsDigitRun(parts[2], b[1], b[2])
    /\ IsDigitRun(parts[3], c[1], c[2])

\* One of invalid_patterns matches the stripped value.
MatchesInvalidPattern(v) ==
    \/ DatePattern(Split(v, "/"), <<1, 2>>, <<1, 2>>, <<2, 4>>)
    \/ DatePattern(Split(v, "-"), <<1, 2>>, <<1, 2>>, <<2, 4>>)
    \/ DatePattern(Split(v, "-"), <<4, 4>>, <<1, 2>>, <<1, 2>>)

IsLeapYear(y) == (y % 4 = 0 /\ y % 100 # 0) \/ y % 400 = 0

DaysInMonth(y, m) ==
    IF m = 2 THEN (IF IsLeapYear(y) THEN 29 ELSE 28)
    ELSE IF m \in {4, 6, 9, 11} THEN 30 ELSE 31

\* datetime(y, m, d) does not raise.
ValidDate(y, m, d) == y >= 1 /\ y <= 9999 /\ m >= 1 /\ m <= 12 /\ d >= 1 /\ d <= DaysInMonth(y, m)

NoDate == [ok |-> FALSE, aware |-> FALSE, y |-> 0, m |-> 0, d |-> 0, clock |-> ""]

\* A naive datetime at midnight, or the failure of datetime(y, m, d).
Midnight(y, m, d) ==
    IF ValidDate(y, m, d) THEN [ok |-> TRUE, aware |-> FALSE, y |-> y, m |-> m, d |-> d, clock |-> "00:00:00"]
    ELSE NoDate

\* HH:MM:SS
IsClock(c) ==
    /\ Len(c) = 8 /\ At(c, 3) = ":" /\ At(c, 6) = ":"
    /\ IsDigitRun(SubSeq(c, 1, 2), 2, 2) /\ StrToNat(SubSeq(c, 1, 2)) <= 23
    /\ IsDigitRun(SubSeq(c, 4, 5), 2, 2) /\ StrToNat(SubSeq(c, 4, 5)) <= 59
    /\ IsDigitRun(SubSeq(c, 7, 8), 2, 2) /\ StrToNat(SubSeq(c, 7, 8)) <= 59

\* YYYY-MM-DDTHH:MM:SS followed by Z or +00:00: an aware datetime in UTC.
ParseTimestamp(s) ==
    IF /\ Len(s) >= 20
       /\ DatePattern(Split(SubSeq(s, 1, 10), "-"), <<4, 4>>, <<2, 2>>, <<2, 2>>)
       /\ At(s, 11) = "T"
       /\ IsClock(SubSeq(s, 12, 19))
       /\ SubSeq(s, 20, Len(s)) \in {"Z", "+00:00"}
       /\ ValidDate(StrToNat(SubSeq(s, 1, 4)), StrToNat(SubSeq(s, 6, 7)), StrToNat(SubSeq(s, 9, 10)))
    THEN [ok |-> TRUE, aware |-> TRUE, y |-> StrToNat(SubSeq(s, 1, 4)), m |-> StrToNat(SubSeq(s, 6, 7)),
          d |-> StrToNat(SubSeq(s, 9, 10)), clock |-> SubSeq(s, 12, 19)]
    ELSE NoDate

\* dateutil's parser.parse, for the texts of this model: a timestamp in UTC,
\* a date written year-month-day, a date written month-day-year; any other
\* text of the model's inputs makes it raise.
DateutilParse(s) ==
    IF DatePattern(Split(s, "-"), <<4, 4>>, <<1, 2>>, <<1, 2>>)
    THEN Midnight(StrToNat(Split(s, "-")[1]), StrToNat(Split(s, "-")[2]), StrToNat(Split(s, "-")[3]))
    ELSE IF DatePattern(Split(s, "-"), <<1, 2>>, <<1, 2>>, <<4, 4>>)
    THEN Midnight(StrToNat(Split(s, "-")[3]), StrToNat(Split(s, "-")[1]), StrToNat(Split(s, "-")[2]))
    ELSE ParseTimestamp(s)

\* is_invalid_date_format: only a text with a T that ends in Z and parses is
\* taken as valid.
is_invalid_date_format(value) ==
    IF value.t # "str" THEN FALSE
    ELSE IF MatchesInvalidPattern(Strip(value.s)) THEN TRUE
    ELSE ~(Contains(value.s, "T") /\ EndsWith(value.s, "Z") /\ DateutilParse(value.s).ok)

\* "Assume years 00-30 are 2000s, 31-99 are 1900s".
FullYear(yy) == IF yy <= 30 THEN yy + 2000 ELSE yy + 1900

\* The datetime convert_to_iso_pacific builds from the stripped text.
ParseDate(s) ==
    IF DatePattern(Split(s, "/"), <<1, 2>>, <<1, 2>>, <<2, 2>>)
    THEN Midnight(FullYear(StrToNat(Split(s, "/")[3])), StrToNat(Split(s, "/")[1]), StrToNat(Split(s, "/")[2]))
    ELSE IF DatePattern(Split(s, "/"), <<1, 2>>, <<1, 2>>, <<4, 4>>)
    THEN Midnight(StrToNat(Split(s, "/")[3]), StrToNat(Split(s, "/")[1]), StrToNat(Split(s, "/")[2]))
    ELSE DateutilParse(s)

\* Hours US/Pacific is behind UTC at midnight of a day of month m of year y:
\* daylight time from April to October since 2007 and from May to September
\* since 1967, standard time from December to February and in the years
\* from 1920 to 1941.  Other days are not among the model's inputs.
PacificHoursBehind(y, m) == IF (y >= 2007 /\ m \in 4..10) \/ (y >= 1967 /\ m \in 5..9) THEN 7 ELSE 8

Pad(n, width) == IF Len(NatToStr(n)) >= width THEN NatToStr(n) ELSE SubSeq("0000", 1, width - Len(NatToStr(n))) \o NatToStr(n)

\* dt_utc.isoformat(): an aware time is already UTC, a naive midnight is
\* taken as Pacific time.
IsoFormatUtc(dt) ==
    Pad(dt.y, 4) \o "-" \o Pad(dt.m, 2) \o "-" \o Pad(dt.d, 2) \o "T"
    \o (IF dt.aware THEN dt.clock ELSE Pad(PacificHoursBehind(dt.y, dt.m), 2) \o ":00:00")
    \o "+00:00"

IsoOrNone(dt) == IF dt.ok THEN PyStr(IsoFormatUtc(dt)) ELSE None

\* convert_to_iso_pacific: None for what is not a text, is empty or does not
\* parse.
convert_to_iso_pacific(date_string) ==
    IF ~Truthy(date_string) \/ date_string.t # "str" THEN None
    ELSE IsoOrNone(ParseDate(Strip(date_string.s)))

\* The date fields of the fixer.
date_fields ==
    {"createdDate", "updatedDate", "assignedDate", "requestDate", "visitReviewDate", "proposalDate",
     "contractDate", "escrowDate", "estimatedClosingDate", "closingDate", "revSharePayDate",
     "underwritingDate", "escrowPaymentDate", "boosterCompletionDate", "invoiceDate", "quoteSentDate",
     "quoteOpenedDate", "quoteSignedDate", "contractingStartDate", "contractSentDate", "archivedDate",
     "operationManagerApprovedDate", "sentDate", "openedDate", "signedDate", "underwritingApprovedDate",
     "contractSignedDate", "convertedDate", "expiredDate", "rejectedDate", "requestedVisitDateTime",
     "visitDate", "moveToQuotingDate"}

\* item_issues of one item, as a dict from field to converted value: the date
\* fields whose value is classified invalid and converts.
ItemIssues(item) ==
    SelectSeq([i \in 1..Len(item) |-> [key |-> item[i].key, val |-> convert_to_iso_pacific(item[i].val)]],
              LAMBDA p : /\ p.key \in date_fields
                         /\ is_invalid_date_format(DictGet(item, p.key))
                         /\ Truthy(p.val))

\* scan_table_for_date_issues: invalid_items, [] when the scan raises.
RECURSIVE InvalidItems(_)
InvalidItems(items) ==
    IF items = <<>> THEN <<>>
    ELSE (IF ItemIssues(Head(items)) # <<>>
          THEN <<[id |-> DictGet(Head(items), "id"), issues |-> ItemIssues(Head(items))]>>
          ELSE <<>>)
         \o InvalidItems(Tail(items))

scan_table_for_date_issues(items, scan_raises) == IF scan_raises THEN <<>> ELSE InvalidItems(items)

\* An item after update_item sets the fields of issues.
RECURSIVE SetFields(_, _)
SetFields(item, issues) ==
    IF issues = <<>> THEN item
    ELSE SetFields(DictPut(item, Head(issues).key, Head(issues).val), Tail(issues))

\* The loop of fix_all_dates over invalid_items: fix_item_dates updates the
\* item, or returns False when update_item raises.
RECURSIVE FixItems(_, _, _)
FixItems(acc, invalid_items, bad) ==
    IF invalid_items = <<>> THEN acc
    ELSE FixItems(
            IF Head(invalid_items).id \in bad THEN [acc EXCEPT !.total_errors = @ + 1]
            ELSE [acc EXCEPT !.total_fixed = @ + 1,
                             !.table = [i \in 1..Len(@) |->
                                            IF DictGet(@[i], "id") = Head(invalid_items).id
                                            THEN SetFields(@[i], Head(invalid_items).issues) ELSE @[i]]],
            Tail(invalid_items), bad)

\* fix_all_dates over one table.
fix_all_dates(table, invalid_items, bad) ==
    FixItems([table |-> table, total_fixed |-> 0, total_errors |-> 0], invalid_items, bad)

-----------------------------------------------------------------------------
(* extract_properties.py: findMatchingContact and findMatchingAddress *)

\* normalize_str(s) for a str or None.
normalize_str(v) ==
    IF ~Truthy(v) THEN "" ELSE Keep(Lower(Strip(v.s)), LowerSet \cup Digits)

RECURSIVE CollapseWhitespace(_)
\* re.sub(r'\s+', ' ', h)
CollapseWhitespace(h) ==
    IF h = "" THEN ""
    ELSE IF At(h, 1) \in Whitespace THEN " " \o CollapseWhitespace(LStrip(h))
    ELSE At(h, 1) \o CollapseWhitespace(SubSeq(h, 2, Len(h)))

\* normalize_header(header) as a Python value.  None has no strip(): the
\* AttributeError leaves the function.  The three replacements of typographic
\* quotes leave the ASCII text handled here as it is.
normalize_header(header) ==
    IF header.t # "str" THEN Raised("AttributeError")
    ELSE PyStr(CollapseWhitespace(Lower(Strip(header.s))))

\* `normalize_str(x) if x else ''`
NormOrEmpty(v) == IF Truthy(v) THEN normalize_str(v) ELSE ""

\* difflib find_longest_match over the whole of a and b: <<i, j, k>> with
\* a[i..i+k-1] = b[j..j+k-1], k the greatest, then i the least, then j the least
\* (no junk: isjunk is None and both strings are far below the autojunk length).
LongestMatch(a, b) ==
    LET common(k) == {<<i, j>> \in (1..(Len(a) - k + 1)) \X (1..(Len(b) - k + 1)) :
                          SubSeq(a, i, i + k - 1) = SubSeq(b, j, j + k - 1)}
        ks == {k \in 1..Len(a) : k <= Len(b) /\ common(k) # {}}
        k0 == 0 - MinOf({0 - k : k \in ks})
        i0 == MinOf({p[1] : p \in common(k0)})
        j0 == MinOf({p[2] : p \in {q \in common(k0) : q[1] = i0}})
    IN IF ks = {} THEN <<0, 0, 0>> ELSE <<i0, j0, k0>>

RECURSIVE MatchingChars(_, _)
\* The total size of SequenceMatcher(None, a, b).get_matching_blocks().
MatchingChars(a, b) ==
    LET m == LongestMatch(a, b)
    IN IF a = "" \/ b = "" \/ m[3] = 0 THEN 0
       ELSE m[3] + MatchingChars(SubSeq(a, 1, m[1] - 1), SubSeq(b, 1, m[2] - 1))
                 + MatchingChars(SubSeq(a, m[1] + m[3], Len(a)), SubSeq(b, m[2] + m[3], Len(b)))

\* difflib.SequenceMatcher(None, a, b).ratio() > 0.85, i.e. 2*M/T > 17/20.
FuzzyMatch(a, b) == Len(a) + Len(b) > 0 /\ 40 * MatchingChars(a, b) > 17 * (Len(a) + Len(b))

EmailExactPoints == 100
EmailPartialPoints == 60
EmailFuzzyPoints == 40
NameExactPoints == 30
NamePartialPoints == 20
NameFuzzyPoints == 10
FirstLastExactPoints == 10
FirstLastPartialPoints == 5
PhonePoints == 5
AcceptThreshold == 60

\* The email signal of findMatchingContact for one row.
EmailScore(norm_email, contact_email) ==
    IF norm_email # "" /\ contact_email = norm_email THEN EmailExactPoints
    ELSE IF norm_email # "" /\ (Contains(contact_email, norm_email) \/ Contains(norm_email, contact_email))
    THEN EmailPartialPoints
    ELSE IF norm_email # "" /\ FuzzyMatch(norm_email, contact_email) THEN EmailFuzzyPoints
    ELSE 0

FullNameScore(norm_fullName, contact_full) ==
    IF norm_fullName # "" /\ contact_full = norm_fullName THEN NameExactPoints
    ELSE IF norm_fullName # "" /\ (Contains(contact_full, norm_fullName) \/ Contains(norm_fullName, contact_full))
    THEN NamePartialPoints
    ELSE IF norm_fullName # "" /\ FuzzyMatch(norm_fullName, contact_full) THEN NameFuzzyPoints
    ELSE 0

FirstLastScore(norm_first, norm_last, contact_first, contact_last) ==
    IF norm_first # "" /\ norm_last # ""
    THEN IF contact_first = norm_first /\ contact_last = norm_last THEN FirstLastExactPoints
         ELSE IF Contains(contact_first, norm_first) \/ Contains(norm_first, contact_first)
         THEN FirstLastPartialPoints
         ELSE IF Contains(contact_last, norm_last) \/ Contains(norm_last, contact_last)
         THEN FirstLastPartialPoints
         ELSE 0
    ELSE 0

PhoneScore(norm_phone, contact_phone, contact_mobile) ==
    IF norm_phone # "" /\ (contact_phone = norm_phone \/ contact_mobile = norm_phone)
    THEN PhonePoints ELSE 0

\* The score the loop body of findMatchingContact gives one row of Contacts.csv.
ContactScore(q, row) ==
    EmailScore(NormOrEmpty(q.email), normalize_str(PyStr(row.email)))
    + FullNameScore(NormOrEmpty(q.fullName), normalize_str(PyStr(row.fullName)))
    + FirstLastScore(NormOrEmpty(q.firstName), NormOrEmpty(q.lastName),
                     normalize_str(PyStr(row.firstName)), normalize_str(PyStr(row.lastName)))
    + PhoneScore(NormOrEmpty(q.phone), normalize_str(PyStr(row.phone)), normalize_str(PyStr(row.mobile)))

\* A plausible slip: a later row replaces an equal best.
BeatsBestOrTies(sc, best) == sc >= best

\* A plausible slip: only the first row that scores at all is kept.
BeatsBestFirstOnly(sc, best) == best = 0 /\ sc > best

\* `if score > best_score`
BeatsBest(sc, best) == sc > best

\* A plausible slip: the threshold set at the fuzzy email weight.
AcceptBestFromFuzzy(best, row) == IF best >= EmailFuzzyPoints THEN row ELSE 0

\* `if best_score >= 60: return best_row`, 0 standing for None.
AcceptBest(best, row) == IF best >= AcceptThreshold THEN row ELSE 0

\* norm_addr(addr)
norm_addr(v) == IF ~Truthy(v) THEN "" ELSE Keep(Lower(Strip(v.s)), LowerSet \cup Digits)

AddressKeyLen == 10

\* s[:10]
Prefix(s) == IF Len(s) <= AddressKeyLen THEN s ELSE SubSeq(s, 1, AddressKeyLen)

\* norm_house = norm_addr(houseAddress) if houseAddress else None; the truthiness
\* of norm_house decides whether the house address is compared.
HouseKey(houseAddress) == IF Truthy(houseAddress) THEN norm_addr(houseAddress) ELSE ""

\* A plausible slip: the house address is not compared.
AddressRowMatchesPrefix(key, norm_house, row) ==
    Prefix(norm_addr(row.propertyFullAddress)) = key

\* A plausible slip: the row's address is tested for starting with the key.
AddressRowMatchesStart(key, norm_house, row) ==
    LET row_full == norm_addr(row.propertyFullAddress)
        row_house == norm_addr(row.houseAddress)
    IN /\ StartsWith(row_full, key)
       /\ IF norm_house # "" THEN row_house # "" /\ row_house = norm_house ELSE TRUE

\* The loop body of findMatchingAddress: whether it returns this row.
AddressRowMatches(key, norm_house, row) ==
    LET row_full == norm_addr(row.propertyFullAddress)
        row_house == norm_addr(row.houseAddress)
    IN /\ Prefix(row_full) = key
       /\ IF norm_house # "" THEN row_house # "" /\ row_house = norm_house ELSE TRUE

-----------------------------------------------------------------------------
(* Bounds and input sets *)

MaxSegments == 2    \* segments of a comma-separated media list
MaxFields == 2      \* fields of a source item
MaxPool == 2        \* rows of Contacts.csv and of Properties.csv
MaxDocs == 2        \* elements of a document array
MaxText == 2        \* characters of a text handed to a normalizer
MaxItems == 2       \* items of a short source table
MaxOldItems == 26   \* items of a table to rename: one more than a batch
MaxDated == 2       \* items of a table with dates
MaxRuns == 2        \* runs of fix_all_dates

\* All sequences over S of length lo..hi.
SeqsOf(S, lo, hi) == UNION {[1..n -> S] : n \in lo..hi}

MediaUris ==
    {p \o id \o rest :
        p \in {"wix:image://v1/", "wix:image://", "wix:document://v1/", "wix:document://v1/ugd/",
               "https://static.wixstatic.com/media/", "http://x.io/"},
        id \in {"2d321c_abc123.jpg", "2d321c_8011271.pdf", "0a_f1", "shapes_a1", "ab~mv2.PNG",
                "Photo.PNG", "0a_mv2"},
        rest \in {"", "/photo.jpg", "/report.pdf#originWidth=800"}}

MediaObjects ==
    {"{\"slug\":\"" \o x \o "\"}" : x \in {"0a_f1", "ab~mv2.png", "my photo", "a.jpg, wix:image://v1/b"}}
    \cup {"{\"uri\":\"" \o x \o "\",\"alt\":\"t\"}" : x \in {"wix:image://v1/0a_f1/p.jpg", "http://x.io/p.jpg", "ftp://x"}}
    \cup {"{\"slug\": \"0a_f1\"}", "{\"uri\":\"ftp://x\",\"slug\":\"0a_f1\"}", "{\"slug\":\"0A_F1\"}"}

MediaGalleries ==
    {"[]", "[1,]",
     "[{\"src\":\"wix:image://v1/0a_f1/p.jpg\",\"slug\":\"0a_f1.jpg\"},\"x\",7]",
     "[{\"slug\":\"0a_f1.png\"},{\"alt\":\"t\"}]",
     "[{\"slug\":5},{\"src\":\"wix:image://v1/0a_f1/p.jpg\"}]",
     "[{\"src\": \"https://static.wixstatic.com/media/0a_f1~mv2.jpg\", \"slug\": \"0a_f1.jpg\"}, \"x\", 7]"}

MediaSegments ==
    {"wix:image://v1/0a_f1/p.jpg", "wix:document://v1/d.pdf/r.pdf", "https://x.io/a.jpg",
     "http://x.io/?u=wix:y", "plain"}

MediaLists ==
    {Join(segs, sep) : segs \in SeqsOf(MediaSegments, 2, MaxSegments), sep \in {",", ", "}}

MediaContents ==
    {pre \o "<img src=\"" \o u \o "\"> and " \o v :
        pre \in {"", "https://x.io/page "},
        u \in {"wix:image://v1/0a_f1/p.jpg#w=1", "https://static.wixstatic.com/media/a.jpg"},
        v \in {"wix:image://shapes_a1 end", "text"}}

MediaStrings == MediaUris \cup MediaObjects \cup MediaGalleries \cup MediaLists \cup MediaContents

MediaValues == {None, PyStr("")} \cup {PyStr(x) : x \in MediaStrings}

CoerceValues ==
    {None, PyInt(0), PyInt(7), PyBool(TRUE), PyDec("3.14"), PyDec("-2.0")}
    \cup {PyStr(x) : x \in {"", " ", "abc", "3.14", "-12", "$1,200.50", "a-b", "a-b-", "1.2.3", "..",
                           "12abc", "TRUE", "yes", "0", "off",
                           "a@b.co", "/sla/x%40y.com", "/sla/none", "not-an-email", "a@b",
                           "https://x.io", "www.x.io", "x.io", "ftp://x"}}

CoerceOps == {"integer", "decimal", "boolean", "email", "url"}

ItemFields ==
    {"ID", "id", "Id", "item04Projects", "Project Manager Email List",
     "projectManagerEmailList", "email", "order", "budget", "zip", "document",
     "redfinLink", "active", "notes", "gallery"}

\* The values a source field is drawn from.
FieldValues(f) ==
    CASE f \in {"ID", "id", "Id"} -> {PyStr("7"), PyStr("8")}
      [] f = "item04Projects" -> {PyStr("dup")}
      [] f \in {"Project Manager Email List", "projectManagerEmailList", "email"} ->
            {PyStr("pm@x.io"), PyStr("not-an-email"), PyStr("/sla/none"), PyStr("/sla/x%40y.com")}
      [] f \in {"order", "budget"} -> {PyStr("1.2.3"), PyStr("12.5"), PyStr("abc"), PyDec("3.0")}
      [] f = "zip" -> {PyInt(1234), PyStr("")}
      [] f = "document" -> {PyStr("wix:document://v1/2d321c_8011271.pdf/report.pdf"), PyStr("wix:image://v1/0a_f1/s.png")}
      [] f = "redfinLink" -> {PyStr("www.redfin.com/x"), PyStr("redfin")}
      [] f = "active" -> {PyStr("TRUE"), PyInt(0)}
      [] f = "gallery" -> {PyStr("[{\"slug\":5},{\"src\":\"wix:image://v1/0a_f1/p.jpg\"}]")}
      [] OTHER -> {PyDec("2.50"), None}

ItemPairs == {[key |-> f, val |-> v] : f \in ItemFields, v \in UNION {FieldValues(g) : g \in ItemFields}}

\* Source items: the keys of a dict are distinct.
Items ==
    {it \in SeqsOf({p \in ItemPairs : p.val \in FieldValues(p.key)}, 1, MaxFields) :
        \A i, j \in 1..Len(it) : i # j => it[i].key # it[j].key}

Tables == {"Projects", "Contacts"}

DocPaths == {Join(segs, "/") : segs \in SeqsOf({"2d_1.pdf", "r.pdf", ""}, 0, MaxSegments)}

DocUris ==
    {p \o path :
        p \in {"wix:document://v1/", "wix:document://v1/ugd/", "wix:document://", "wix:document://v2/"},
        path \in DocPaths}

DocElements ==
    {JStr("wix:document://v1/2d_1.pdf/r.pdf"), JStr("wix:document://v1/ugd/2d_1.pdf"),
     JStr("wix:document://2d_1.pdf/r.pdf"), JStr("r.pdf"), JNum("5"),
     JObj(<<[key |-> "filename", val |-> JStr("r.pdf")]>>)}

DocArrays == {json_dumps(JArr(xs)) : xs \in SeqsOf(DocElements, 0, MaxDocs)}

DocValues ==
    {None, PyStr(""), PyStr("[oops"), PyStr("report.pdf")}
        \cup {PyStr(x) : x \in DocUris \cup DocArrays}

NormalizeChars == {"A", "b", "1", " ", "\t", "-"}

NormalizeValues ==
    {None} \cup {PyStr(Join(cs, "")) : cs \in SeqsOf(NormalizeChars, 0, MaxText)}

ContactRow(e, p) ==
    [email |-> e, fullName |-> p[1], firstName |-> p[2], lastName |-> p[3], phone |-> p[4], mobile |-> p[5]]

RowEmails == {"AB@X.io ", "b@x.io", "acb@x.io", "zz@q.de", ""}

RowProfiles ==
    {<<"Al Bo", "Al", "Bo", "555-1", "">>,
     <<"Al Bqo", "Ali", "Bo", "", "5551">>,
     <<"Zed Roe", "Zed", "Roe", "", "">>}

ContactRows == {ContactRow(e, p) : e \in RowEmails, p \in RowProfiles}

ContactQuery(e, p) == [email |-> e, fullName |-> p[1], firstName |-> p[2], lastName |-> p[3], phone |-> p[4]]

Queries ==
    {ContactQuery(e, p) :
        e \in {None, PyStr(""), PyStr("ab@x.io")},
        p \in {<<None, None, None, None>>,
               <<PyStr("Al Bo"), PyStr("Al"), PyStr("Bo"), PyStr("5551")>>,
               <<None, PyStr("Al"), PyStr("B"), None>>}}

AddressRow(full, house) == [propertyFullAddress |-> PyStr(full), houseAddress |-> PyStr(house)]

AddressRows ==
    {AddressRow(f, h) :
        f \in {"123 Main St, Springfield, IL, 62704", "123 Main Street, Shelbyville", "9 Elm", "9 Elm St"},
        h \in {"123 Main St", "123 Main", ""}}

AddressQueries ==
    {<<f, h>> :
        f \in {PyStr("123 Main St, Springfield, IL, 62704"), PyStr("123 MAIN ST."), PyStr("9 Elm"), PyStr(" ,"), None},
        h \in {None, PyStr(""), PyStr("123 Main St"), PyStr("#")}}

-----------------------------------------------------------------------------
(* The scripts as state machines *)

\* The items of a source table, by what each holds: an ID, an id, or neither.
ItemKinds == {"ID", "id", "none"}

SourceItem(i, kind) ==
    IF kind = "none" THEN <<[key |-> "email", val |-> PyStr("pm@x.io")]>>
    ELSE <<[key |-> kind, val |-> PyStr(NatToStr(i))]>>

SourceItems(kinds) == [i \in 1..Len(kinds) |-> SourceItem(i, kinds[i])]

\* Source tables: short ones, and ones with a full first batch before a tail.
ShortTables == SeqsOf(ItemKinds, 0, MaxItems)

SourceTables ==
    ShortTables \cup {[i \in 1..batch_size |-> "ID"] \o tail : tail \in SeqsOf(ItemKinds, 0, 1)}

\* The ids whose write raises: none, one or two of the table's.
BadSets(n) == {{}} \cup {{PyStr(NatToStr(i)), PyStr(NatToStr(j))} : i, j \in 1..n}

EmptyStore == [t \in {"Projects", "Contacts"} |-> <<>>]

\* The items of an Amplify table that was filled before.
GalleryValues ==
    {PyStr("wix:image://v1/0a_f1/p.jpg"), PyStr("https://static.wixstatic.com/media/x.jpg"),
     PyStr("[{\"src\":\"wix:image://v1/0a_f1/p.jpg\"}]"), PyStr("[{\"slug\":5}]"), None}

ExistingItem(i, g) == <<[key |-> "id", val |-> PyStr(NatToStr(i))], [key |-> "gallery", val |-> g]>>

ExistingStores ==
    {[EmptyStore EXCEPT !["Projects"] = [i \in 1..Len(gs) |-> ExistingItem(i, gs[i])]] :
        gs \in SeqsOf(GalleryValues, 0, 2)}

\* table_data of a backup file: one table, which may be one that no longer
\* exists, with the answer typed when asked whether to clear it first.
BackupItem(i, o) == <<[key |-> "id", val |-> PyStr(NatToStr(i))], [key |-> "order", val |-> PyStr(o)]>>

BackupEntries ==
    {[table |-> "Projects", error |-> TRUE, items |-> <<>>, clear |-> "n"]}
    \cup {[table |-> t, error |-> FALSE, items |-> [i \in 1..Len(os) |-> BackupItem(i, os[i])], clear |-> c] :
            t \in {"Projects", "Gone"}, c \in {"y", "n"}, os \in SeqsOf({"12.5", "7", "1.2.3"}, 0, 2)}

MigratorOps == {"migrate_table_data", "run_migration", "convert_existing_wix_urls", "restore_from_backup"}

\* The values of a date field.
DateValues ==
    {PyStr("1/5/24"), PyStr("7/4/2024"), PyStr("12/31/31"), PyStr("13/1/24"), PyStr("2024-1-5"),
     PyStr(" 1-5-2024"), PyStr("2024-01-05T08:00:00Z"), PyStr("2024-07-04T07:00:00+00:00"),
     PyStr("abc"), PyStr(""), None}

DatedItem(i, v) == <<[key |-> "id", val |-> PyStr(NatToStr(i))], [key |-> "createdDate", val |-> v]>>

DatedTables == {[i \in 1..Len(vs) |-> DatedItem(i, vs[i])] : vs \in SeqsOf(DateValues, 0, MaxDated)}

MediaIdle == mValue = None /\ mKind = "" /\ mOnce = None /\ mTwice = None
CoerceIdle == cValue = None /\ cOp = "" /\ cResult = None
TransformIdle == tItem = <<>> /\ tTable = "" /\ tIdx = 0 /\ tOut = <<>>
ContactIdle ==
    /\ query = ContactQuery(None, <<None, None, None, None>>) /\ pool = <<>> /\ rowIdx = 0
    /\ score = 0 /\ best_score = 0 /\ best_row = 0 /\ matched = 0
AddressIdle == aFull = None /\ aHouse = None /\ aPool = <<>> /\ aIdx = 0 /\ aResult = 0
DocumentIdle == dValue = None /\ dRecord = None /\ dOut = None /\ dCount = 0
NormalizeIdle == nValue = None /\ nOp = "" /\ nResult = None
MigrateIdle ==
    /\ gOp = "" /\ dry_run = TRUE /\ gTable = "" /\ gItems = <<>> /\ gScanRaises = FALSE /\ gBad = {}
    /\ gConfirm = "" /\ gBackup = <<>> /\ gIdx = 0 /\ store = <<>> /\ result = <<>> /\ stats = <<>>
RenameIdle ==
    /\ rOld = {} /\ rOldExists = FALSE /\ rNew = {} /\ rNewExists = FALSE /\ rItems = <<>>
    /\ rDeleteOld = FALSE /\ rFailed = {} /\ rReturn = ""
DateIdle ==
    /\ fTable = <<>> /\ fBad = {} /\ fInvalid = <<>> /\ fFixed = 0 /\ fErrors = 0 /\ fRuns = 0
    /\ fScanRaises = FALSE

\* --- the media rewriter, applied once and then to its own output ---

MediaInit ==
    /\ pc = "media"
    /\ mValue \in MediaValues /\ mKind \in FieldKinds /\ mOnce = None /\ mTwice = None
    /\ CoerceIdle /\ TransformIdle /\ ContactIdle /\ AddressIdle /\ DocumentIdle /\ NormalizeIdle
    /\ MigrateIdle /\ RenameIdle /\ DateIdle

Rewrite ==
    /\ pc = "media"
    /\ mOnce' = convert_wix_url_field(mValue, mKind)
    /\ pc' = "media_once"
    /\ UNCHANGED <<mValue, mKind, mTwice, coerceVars, transformVars, contactVars, addressVars, documentVars, normalizeVars, migrateVars, renameVars, dateVars>>

RewriteAgain ==
    /\ pc = "media_once"
    /\ mTwice' = convert_wix_url_field(mOnce, mKind)
    /\ pc' = "media_twice"
    /\ UNCHANGED <<mValue, mKind, mOnce, coerceVars, transformVars, contactVars, addressVars, documentVars, normalizeVars, migrateVars, renameVars, dateVars>>

MediaNext == Rewrite \/ RewriteAgain

SpecMedia == MediaInit /\ [][MediaNext]_vars

\* --- the scalar coercion rules ---

CoerceInit ==
    /\ pc = "coerce"
    /\ cValue \in CoerceValues /\ cOp = "" /\ cResult = None
    /\ MediaIdle /\ TransformIdle /\ ContactIdle /\ AddressIdle /\ DocumentIdle /\ NormalizeIdle
    /\ MigrateIdle /\ RenameIdle /\ DateIdle

ConvertNumeric ==
    /\ pc = "coerce"
    /\ \E target_type \in {"integer", "decimal"} :
          /\ cOp' = target_type
          /\ cResult' = convert_numeric_value(cValue, target_type)
    /\ pc' = "coerced"
    /\ UNCHANGED <<cValue, mediaVars, transformVars, contactVars, addressVars, documentVars, normalizeVars, migrateVars, renameVars, dateVars>>

ConvertBoolean ==
    /\ pc = "coerce"
    /\ cOp' = "boolean"
    /\ cResult' = convert_boolean_value(cValue)
    /\ pc' = "coerced"
    /\ UNCHANGED <<cValue, mediaVars, transformVars, contactVars, addressVars, documentVars, normalizeVars, migrateVars, renameVars, dateVars>>

CleanEmail ==
    /\ pc = "coerce"
    /\ cOp' = "email"
    /\ cResult' = clean_email_value(cValue)
    /\ pc' = "coerced"
    /\ UNCHANGED <<cValue, mediaVars, transformVars, contactVars, addressVars, documentVars, normalizeVars, migrateVars, renameVars, dateVars>>

CleanUrl ==
    /\ pc = "coerce"
    /\ cOp' = "url"
    /\ cResult' = clean_url_value(cValue)
    /\ pc' = "coerced"
    /\ UNCHANGED <<cValue, mediaVars, transformVars, contactVars, addressVars, documentVars, normalizeVars, migrateVars, renameVars, dateVars>>

CoerceNext == ConvertNumeric \/ ConvertBoolean \/ CleanEmail \/ CleanUrl

SpecCoerce == CoerceInit /\ [][CoerceNext]_vars

\* --- transform_item, one field of the item per step ---

TransformInit ==
    /\ pc = "transform"
    /\ tItem \in Items /\ tTable \in Tables /\ tIdx = 0 /\ tOut = <<>>
    /\ MediaIdle /\ CoerceIdle /\ ContactIdle /\ AddressIdle /\ DocumentIdle /\ NormalizeIdle
    /\ MigrateIdle /\ RenameIdle /\ DateIdle

TransformStep ==
    /\ pc = "transform"
    /\ tIdx < Len(tItem)
    /\ tOut' = TransformField(tOut, tItem[tIdx + 1].key, tItem[tIdx + 1].val, tTable)
    /\ tIdx' = tIdx + 1
    /\ UNCHANGED <<pc, tItem, tTable, mediaVars, coerceVars, contactVars, addressVars, documentVars, normalizeVars, migrateVars, renameVars, dateVars>>

TransformReturn ==
    /\ pc = "transform"
    /\ tIdx = Len(tItem)
    /\ pc' = "transformed"
    /\ UNCHANGED <<transformVars, mediaVars, coerceVars, contactVars, addressVars, documentVars, normalizeVars, migrateVars, renameVars, dateVars>>

TransformNext == TransformStep \/ TransformReturn

SpecTransform == TransformInit /\ [][TransformNext]_vars

\* --- findMatchingContact, one row of Contacts.csv per step ---

ContactInit ==
    /\ pc = "scan"
    /\ query \in Queries /\ pool \in SeqsOf(ContactRows, 0, MaxPool)
    /\ rowIdx = 0 /\ score = 0 /\ best_score = 0 /\ best_row = 0 /\ matched = 0
    /\ MediaIdle /\ CoerceIdle /\ TransformIdle /\ AddressIdle /\ DocumentIdle /\ NormalizeIdle
    /\ MigrateIdle /\ RenameIdle /\ DateIdle

ScoreRow ==
    /\ pc = "scan"
    /\ rowIdx < Len(pool)
    /\ LET sc == ContactScore(query, pool[rowIdx + 1])
       IN /\ score' = sc
          /\ best_score' = IF BeatsBest(sc, best_score) THEN sc ELSE best_score
          /\ best_row' = IF BeatsBest(sc, best_score) THEN rowIdx + 1 ELSE best_row
    /\ rowIdx' = rowIdx + 1
    /\ UNCHANGED <<pc, query, pool, matched, mediaVars, coerceVars, transformVars, addressVars, documentVars, normalizeVars, migrateVars, renameVars, dateVars>>

ReturnContact ==
    /\ pc = "scan"
    /\ rowIdx = Len(pool)
    /\ matched' = AcceptBest(best_score, best_row)
    /\ pc' = "matched"
    /\ UNCHANGED <<query, pool, rowIdx, score, best_score, best_row, mediaVars, coerceVars, transformVars, addressVars, documentVars, normalizeVars, migrateVars, renameVars, dateVars>>

ContactNext == ScoreRow \/ ReturnContact

SpecContact == ContactInit /\ [][ContactNext]_vars

\* --- findMatchingAddress, one row of Properties.csv per step ---

AddressInit ==
    /\ pc = "addr"
    /\ \E q \in AddressQueries : aFull = q[1] /\ aHouse = q[2]
    /\ aPool \in SeqsOf(AddressRows, 0, MaxPool)
    /\ aIdx = 0 /\ aResult = 0
    /\ MediaIdle /\ CoerceIdle /\ TransformIdle /\ ContactIdle /\ DocumentIdle /\ NormalizeIdle
    /\ MigrateIdle /\ RenameIdle /\ DateIdle

\* `if not norm_full: return None`, before the file is opened.
AddressEmptyKey ==
    /\ pc = "addr"
    /\ aIdx = 0
    /\ norm_addr(aFull) = ""
    /\ aResult' = 0
    /\ pc' = "addr_done"
    /\ UNCHANGED <<aFull, aHouse, aPool, aIdx, mediaVars, coerceVars, transformVars, contactVars, documentVars, normalizeVars, migrateVars, renameVars, dateVars>>

AddressRowStep ==
    /\ pc = "addr"
    /\ norm_addr(aFull) # ""
    /\ aIdx < Len(aPool)
    /\ aIdx' = aIdx + 1
    /\ IF AddressRowMatches(Prefix(norm_addr(aFull)), HouseKey(aHouse), aPool[aIdx + 1])
       THEN aResult' = aIdx + 1 /\ pc' = "addr_done"
       ELSE UNCHANGED <<aResult, pc>>
    /\ UNCHANGED <<aFull, aHouse, aPool, mediaVars, coerceVars, transformVars, contactVars, documentVars, normalizeVars, migrateVars, renameVars, dateVars>>

AddressExhausted ==
    /\ pc = "addr"
    /\ norm_addr(aFull) # ""
    /\ aIdx = Len(aPool)
    /\ aResult' = 0
    /\ pc' = "addr_done"
    /\ UNCHANGED <<aFull, aHouse, aPool, aIdx, mediaVars, coerceVars, transformVars, contactVars, documentVars, normalizeVars, migrateVars, renameVars, dateVars>>

AddressNext == AddressEmptyKey \/ AddressRowStep \/ AddressExhausted

SpecAddress == AddressInit /\ [][AddressNext]_vars

\* --- convert_wix_document_url and convert_document_field_value ---

DocumentInit ==
    /\ pc = "doc"
    /\ dValue \in DocValues /\ dRecord = None /\ dOut = None /\ dCount = 0
    /\ MediaIdle /\ CoerceIdle /\ TransformIdle /\ ContactIdle /\ AddressIdle /\ NormalizeIdle
    /\ MigrateIdle /\ RenameIdle /\ DateIdle

ConvertDocumentUrl ==
    /\ pc = "doc"
    /\ dRecord' = convert_wix_document_url(dValue.s)
    /\ pc' = "doc_url"
    /\ UNCHANGED <<dValue, dOut, dCount, mediaVars, coerceVars, transformVars, contactVars, addressVars, normalizeVars, migrateVars, renameVars, dateVars>>

ConvertDocumentField ==
    /\ pc = "doc"
    /\ dOut' = convert_document_field_value(dValue).val
    /\ dCount' = convert_document_field_value(dValue).n
    /\ pc' = "doc_field"
    /\ UNCHANGED <<dValue, dRecord, mediaVars, coerceVars, transformVars, contactVars, addressVars, normalizeVars, migrateVars, renameVars, dateVars>>

DocumentNext == ConvertDocumentUrl \/ ConvertDocumentField

SpecDocument == DocumentInit /\ [][DocumentNext]_vars

\* --- normalize_str and normalize_header ---

NormalizeInit ==
    /\ pc = "normalize"
    /\ nValue \in NormalizeValues /\ nOp = "" /\ nResult = None
    /\ MediaIdle /\ CoerceIdle /\ TransformIdle /\ ContactIdle /\ AddressIdle /\ DocumentIdle
    /\ MigrateIdle /\ RenameIdle /\ DateIdle

NormalizeStr ==
    /\ pc = "normalize"
    /\ nOp' = "normalize_str"
    /\ nResult' = PyStr(normalize_str(nValue))
    /\ pc' = "normalized"
    /\ UNCHANGED <<nValue, mediaVars, coerceVars, transformVars, contactVars, addressVars, documentVars, migrateVars, renameVars, dateVars>>

NormalizeHeader ==
    /\ pc = "normalize"
    /\ nOp' = "normalize_header"
    /\ nResult' = normalize_header(nValue)
    /\ pc' = "normalized"
    /\ UNCHANGED <<nValue, mediaVars, coerceVars, transformVars, contactVars, addressVars, documentVars, migrateVars, renameVars, dateVars>>

NormalizeNext == NormalizeStr \/ NormalizeHeader

SpecNormalize == NormalizeInit /\ [][NormalizeNext]_vars

\* --- the handlers of AmplifyDataMigrator that read and write tables ---

MigrateInit ==
    /\ pc = "migrator"
    /\ gOp \in MigratorOps /\ dry_run \in BOOLEAN
    /\ store \in IF gOp \in {"migrate_table_data", "run_migration"} THEN {EmptyStore} ELSE ExistingStores
    /\ gTable = "" /\ gItems = <<>> /\ gScanRaises = FALSE /\ gBad = {} /\ gConfirm = ""
    /\ gBackup = <<>> /\ gIdx = 0 /\ result = <<>> /\ stats = <<>>
    /\ MediaIdle /\ CoerceIdle /\ TransformIdle /\ ContactIdle /\ AddressIdle /\ DocumentIdle /\ NormalizeIdle
    /\ RenameIdle /\ DateIdle

\* One call of migrate_table_data on a table of the mapping.
MigrateTableData ==
    /\ pc = "migrator" /\ gOp = "migrate_table_data"
    /\ \E t \in Tables, kinds \in SourceTables, sr \in BOOLEAN :
        \E bad \in BadSets(Len(kinds)) :
            /\ gTable' = t /\ gItems' = SourceItems(kinds) /\ gScanRaises' = sr /\ gBad' = bad
            /\ result' = migrate_table_data(store[t], SourceItems(kinds), t, dry_run, sr, bad)
            /\ store' = [store EXCEPT ![t] = result'.target]
    /\ pc' = "migrated"
    /\ UNCHANGED <<gOp, dry_run, gConfirm, gBackup, gIdx, stats>>
    /\ UNCHANGED <<mediaVars, coerceVars, transformVars, contactVars, addressVars, documentVars, normalizeVars, renameVars, dateVars>>

\* run_migration up to its loop: the stats are reset and, live, the run goes
\* on only when "yes" is typed.
StartRun ==
    /\ pc = "migrator" /\ gOp = "run_migration"
    /\ gConfirm' \in IF dry_run THEN {""} ELSE {"YES", "no"}
    /\ stats' = [NoStats EXCEPT !.total_tables = Len(table_mapping)]
    /\ pc' = IF ~dry_run /\ Lower(gConfirm') # "yes" THEN "cancelled" ELSE "run"
    /\ UNCHANGED <<gOp, dry_run, gTable, gItems, gScanRaises, gBad, gBackup, gIdx, store, result>>
    /\ UNCHANGED <<mediaVars, coerceVars, transformVars, contactVars, addressVars, documentVars, normalizeVars, renameVars, dateVars>>

\* One pass of the loop of run_migration: the next table of the mapping is
\* migrated and counted.
MigrateNextTable ==
    /\ pc = "run" /\ gIdx < Len(table_mapping)
    /\ \E kinds \in SeqsOf(ItemKinds, 0, 1), sr \in BOOLEAN :
        \E bad \in BadSets(Len(kinds)) :
            /\ gTable' = table_mapping[gIdx + 1]
            /\ gItems' = SourceItems(kinds) /\ gScanRaises' = sr /\ gBad' = bad
            /\ result' = migrate_table_data(store[gTable'], SourceItems(kinds), gTable', dry_run, sr, bad)
            /\ store' = [store EXCEPT ![gTable'] = result'.target]
            /\ stats' = UpdateStats(stats, result')
    /\ gIdx' = gIdx + 1
    /\ UNCHANGED <<pc, gOp, dry_run, gConfirm, gBackup>>
    /\ UNCHANGED <<mediaVars, coerceVars, transformVars, contactVars, addressVars, documentVars, normalizeVars, renameVars, dateVars>>

\* The end of run_migration: the verification phase and the summary only read.
FinishRun ==
    /\ pc = "run" /\ gIdx = Len(table_mapping)
    /\ pc' = "run_done"
    /\ UNCHANGED <<migrateVars, mediaVars, coerceVars, transformVars, contactVars, addressVars, documentVars, normalizeVars, renameVars, dateVars>>

\* convert_existing_wix_urls: live, it goes on only when "yes" is typed.
ConvertExistingWixUrls ==
    /\ pc = "migrator" /\ gOp = "convert_existing_wix_urls"
    /\ gConfirm' \in IF dry_run THEN {""} ELSE {"Yes", "no"}
    /\ \/ /\ ~dry_run /\ Lower(gConfirm') # "yes"
          /\ pc' = "cancelled"
          /\ UNCHANGED <<gTable, gScanRaises, gBad, store, result>>
       \/ /\ dry_run \/ Lower(gConfirm') = "yes"
          /\ \E sr \in BOOLEAN, bad \in BadSets(Len(store["Projects"])) :
                /\ gScanRaises' = sr /\ gBad' = bad
                /\ result' = convert_existing_wix_urls(store["Projects"], dry_run, sr, bad)
                /\ store' = [store EXCEPT !["Projects"] = result'.table]
          /\ gTable' = "Projects"
          /\ pc' = "converted"
    /\ UNCHANGED <<gOp, dry_run, gItems, gBackup, gIdx, stats>>
    /\ UNCHANGED <<mediaVars, coerceVars, transformVars, contactVars, addressVars, documentVars, normalizeVars, renameVars, dateVars>>

\* restore_from_backup: live, it goes on only when "yes" is typed.
RestoreFromBackup ==
    /\ pc = "migrator" /\ gOp = "restore_from_backup"
    /\ gConfirm' \in IF dry_run THEN {""} ELSE {"yes", "n"}
    /\ \E entry \in BackupEntries :
        /\ gBackup' = <<entry>>
        /\ \/ /\ ~dry_run /\ Lower(gConfirm') # "yes"
              /\ pc' = "cancelled"
              /\ UNCHANGED <<gBad, store, result>>
           \/ /\ dry_run \/ Lower(gConfirm') = "yes"
              /\ \E bad \in BadSets(Len(entry.items)) :
                    /\ gBad' = bad
                    /\ result' = restore_from_backup(store, <<entry>>, dry_run, bad)
                    /\ store' = result'.store
              /\ pc' = "restored"
    /\ UNCHANGED <<gOp, dry_run, gTable, gItems, gScanRaises, gIdx, stats>>
    /\ UNCHANGED <<mediaVars, coerceVars, transformVars, contactVars, addressVars, documentVars, normalizeVars, renameVars, dateVars>>

MigrateNext ==
    MigrateTableData \/ StartRun \/ MigrateNextTable \/ FinishRun \/ ConvertExistingWixUrls \/ RestoreFromBackup

SpecMigrate == MigrateInit /\ [][MigrateNext]_vars

\* --- DynamoDBTableRenamer.rename_table, one DynamoDB call per step ---
\* Items are numbered; a table is the set of its items.  A call that raises
\* is recorded in rFailed under the name of its step.

\* batch_size of batch_write_items.
rename_batch_size == 25

RenameInit ==
    /\ pc = "rename"
    /\ rOld \in {1..n : n \in 0..MaxOldItems} /\ rOldExists = TRUE
    /\ rNew = {} /\ rNewExists = FALSE
    /\ rItems = <<>> /\ rDeleteOld \in BOOLEAN /\ rFailed = {} /\ rReturn = ""
    /\ MediaIdle /\ CoerceIdle /\ TransformIdle /\ ContactIdle /\ AddressIdle /\ DocumentIdle /\ NormalizeIdle
    /\ MigrateIdle /\ DateIdle

RenameFrame ==
    UNCHANGED <<mediaVars, coerceVars, transformVars, contactVars, addressVars, documentVars, normalizeVars, migrateVars, dateVars>>

\* Step 1, get_table_info: None when describe_table raises, and rename_table
\* returns False.
GetTableInfo ==
    /\ pc = "rename"
    /\ \/ /\ pc' = "rename_scan"
          /\ UNCHANGED <<rFailed, rReturn>>
       \/ /\ rFailed' = rFailed \cup {"describe"}
          /\ rReturn' = "False"
          /\ pc' = "renamed"
    /\ UNCHANGED <<rOld, rOldExists, rNew, rNewExists, rItems, rDeleteOld>>
    /\ RenameFrame

\* scan_all_items: every item of the table, or [] when a page raises.
scan_all_items(table, raises) == IF raises THEN <<>> ELSE [i \in 1..Cardinality(table) |-> i]

\* Step 2: the old table is scanned.
ScanOld ==
    /\ pc = "rename_scan"
    /\ \E raises \in BOOLEAN :
        /\ rItems' = scan_all_items(rOld, raises)
        /\ rFailed' = IF raises THEN rFailed \cup {"scan"} ELSE rFailed
    /\ pc' = "rename_create"
    /\ UNCHANGED <<rOld, rOldExists, rNew, rNewExists, rDeleteOld, rReturn>>
    /\ RenameFrame

\* Step 3, create_new_table: False when create_table raises.
CreateNewTable ==
    /\ pc = "rename_create"
    /\ \/ /\ rNewExists' = TRUE
          /\ pc' = "rename_wait"
          /\ UNCHANGED <<rFailed, rReturn>>
       \/ /\ rFailed' = rFailed \cup {"create"}
          /\ rReturn' = "False"
          /\ pc' = "renamed"
          /\ UNCHANGED rNewExists
    /\ UNCHANGED <<rOld, rOldExists, rNew, rItems, rDeleteOld>>
    /\ RenameFrame

\* Step 4, wait_for_table_active: False when describe_table raises or the
\* table is not active in time.
WaitForTableActive ==
    /\ pc = "rename_wait"
    /\ \/ /\ pc' = "rename_write"
          /\ UNCHANGED <<rFailed, rReturn>>
       \/ /\ rFailed' = rFailed \cup {"wait"}
          /\ rReturn' = "False"
          /\ pc' = "renamed"
    /\ UNCHANGED <<rOld, rOldExists, rNew, rNewExists, rItems, rDeleteOld>>
    /\ RenameFrame

\* The items of the batch of batch_write_items that follows the written ones.
NextBatch ==
    {rItems[i] : i \in (Cardinality(rNew) + 1)..
                       (IF Cardinality(rNew) + rename_batch_size < Len(rItems)
                        THEN Cardinality(rNew) + rename_batch_size ELSE Len(rItems))}

\* Step 5, batch_write_items, one batch per step: the batch is written, or
\* batch_write_item raises and rename_table returns False.
BatchWrite ==
    /\ pc = "rename_write"
    /\ Cardinality(rNew) < Len(rItems)
    /\ \/ /\ rNew' = rNew \cup NextBatch
          /\ UNCHANGED <<pc, rFailed, rReturn>>
       \/ /\ rFailed' = rFailed \cup {"write"}
          /\ rReturn' = "False"
          /\ pc' = "renamed"
          /\ UNCHANGED rNew
    /\ UNCHANGED <<rOld, rOldExists, rNewExists, rItems, rDeleteOld>>
    /\ RenameFrame

\* delete_table: the table is gone unless delete_table raises.
DeleteOld(raises) ==
    /\ rOldExists' = IF rDeleteOld /\ ~raises THEN FALSE ELSE rOldExists
    /\ rFailed' = IF rDeleteOld /\ raises THEN rFailed \cup {"delete"} ELSE rFailed

\* Steps 6 and 7, once every batch is written: the new table is scanned and
\* the two counts are compared; when they agree the old table is deleted if
\* asked for.
VerifyAndDelete ==
    /\ pc = "rename_write"
    /\ Cardinality(rNew) = Len(rItems)
    /\ \E verify_raises \in BOOLEAN, delete_raises \in BOOLEAN :
        IF Len(scan_all_items(rNew, verify_raises)) = Len(rItems)
        THEN /\ DeleteOld(delete_raises)
             /\ rReturn' = "True"
        ELSE /\ rFailed' = rFailed \cup {"verify"}
             /\ rReturn' = "False"
             /\ UNCHANGED rOldExists
    /\ pc' = "renamed"
    /\ UNCHANGED <<rOld, rNew, rNewExists, rItems, rDeleteOld>>
    /\ RenameFrame

RenameNext == GetTableInfo \/ ScanOld \/ CreateNewTable \/ WaitForTableActive \/ BatchWrite \/ VerifyAndDelete

SpecRename == RenameInit /\ [][RenameNext]_vars

\* --- DateFormatFixer.fix_all_dates, run after run over one table ---

DateInit ==
    /\ pc = "dates"
    /\ fTable \in DatedTables /\ fBad \in BadSets(Len(fTable))
    /\ fInvalid = <<>> /\ fFixed = 0 /\ fErrors = 0 /\ fRuns = 0 /\ fScanRaises = FALSE
    /\ MediaIdle /\ CoerceIdle /\ TransformIdle /\ ContactIdle /\ AddressIdle /\ DocumentIdle /\ NormalizeIdle
    /\ MigrateIdle /\ RenameIdle

\* One run of fix_all_dates: the table is scanned and every item with issues
\* is updated, unless its update raises.
FixAllDates ==
    /\ pc = "dates"
    /\ fRuns < MaxRuns
    /\ \E raises \in BOOLEAN :
        /\ fScanRaises' = raises
        /\ fInvalid' = scan_table_for_date_issues(fTable, raises)
        /\ fTable' = fix_all_dates(fTable, fInvalid', fBad).table
        /\ fFixed' = fix_all_dates(fTable, fInvalid', fBad).total_fixed
        /\ fErrors' = fix_all_dates(fTable, fInvalid', fBad).total_errors
    /\ fRuns' = fRuns + 1
    /\ UNCHANGED <<pc, fBad>>
    /\ UNCHANGED <<mediaVars, coerceVars, transformVars, contactVars, addressVars, documentVars, normalizeVars, migrateVars, renameVars>>

\* The script is not run again.
DatesDone ==
    /\ pc = "dates"
    /\ fRuns >= 1
    /\ pc' = "dates_done"
    /\ UNCHANGED <<dateVars, mediaVars, coerceVars, transformVars, contactVars, addressVars, documentVars, normalizeVars, migrateVars, renameVars>>

DateNext == FixAllDates \/ DatesDone

SpecDates == DateInit /\ [][DateNext]_vars

-----------------------------------------------------------------------------
(* Properties of the media rewriter, checked under SpecMedia *)

\* The value starts with http:// or https://.
IsHttp(v) == v.t = "str" /\ (StartsWith(v.s, "http://") \/ StartsWith(v.s, "https://"))

\* The path of a wix:document://v1/[ugd/]<docId>/<filename> URI: <<docId, filename, ...>>.
DocumentPath(s) ==
    IF StartsWith(s, "wix:document://v1/ugd/")
    THEN Split(SubSeq(s, Len("wix:document://v1/ugd/") + 1, Len(s)), "/")
    ELSE Split(SubSeq(s, Len("wix:document://v1/") + 1, Len(s)), "/")

IsDocumentUri(v) ==
    /\ v.t = "str"
    /\ StartsWith(v.s, "wix:document://v1/")
    /\ Len(DocumentPath(v.s)) >= 2

\* C1: rewriting a value of kind 'document' of the form
\* wix:document://v1/[ugd/]<docId>/<filename> yields the record
\* {filename: <filename>, documentPublicUrl: <fixed prefix> + <docId>}.
C1_DocumentKindYieldsRecord ==
    (pc = "media_once" /\ mKind = "document" /\ IsDocumentUri(mValue))
        => mOnce = DocRecord(DocumentPath(mValue.s)[2], PUBLIC_URL_PREFIX \o DocumentPath(mValue.s)[1])

\* C2: for every field kind, a value that starts with http:// or https:// is
\* returned by the rewriter exactly unchanged.
C2_HttpValueUnchanged ==
    (pc = "media_once" /\ IsHttp(mValue)) => mOnce = mValue

\* The http(s) values the rewriter takes apart: a comma-separated list with a
\* wix: marker in an array field, text with an image URI in a content field.
HttpValueRewritten ==
    \/ mKind = "array" /\ Contains(mValue.s, ",") /\ Contains(mValue.s, "wix:")
    \/ mKind = "content" /\ Contains(mValue.s, "wix:image://")

\* C2, amended: a value that starts with http:// or https:// is returned
\* unchanged for the kinds single and document, for the kind array unless it
\* holds both a comma and "wix:", and for the kind content unless it holds
\* "wix:image://".
C2_HttpValueUnchangedUnlessTakenApart ==
    (pc = "media_once" /\ IsHttp(mValue) /\ ~HttpValueRewritten) => mOnce = mValue

\* An http list with a comma and no wix: marker went through an array field.
C2_HttpListKept ==
    /\ pc = "media_once"
    /\ mKind = "array"
    /\ IsHttp(mValue)
    /\ Contains(mValue.s, ", ")
    /\ ~Contains(mValue.s, "wix:")
    /\ mOnce = mValue

\* C3: the rewriter is idempotent: rewriting its own output with the same kind
\* gives that output again.
C3_RewriteIdempotent ==
    pc = "media_twice" => mTwice = mOnce

\* The elements of the JSON array handed to the rewriter and of the one it
\* handed back, <<>> for a value that is not a JSON array.
ArrayOf(v) ==
    IF v.t = "str" /\ StartsWith(v.s, "[") /\ json_loads(v.s).ok /\ json_loads(v.s).val.k = "arr"
    THEN json_loads(v.s).val.items
    ELSE <<>>

\* Element e is an object whose src is a legacy reference and which has no slug.
HasLegacySrc(e) ==
    /\ e.k = "obj"
    /\ DictHas(e.items, "src") /\ ~DictHas(e.items, "slug")
    /\ DictGet(e.items, "src").k = "str"
    /\ StartsWith(DictGet(e.items, "src").v, "wix:image://")

\* C17: for an array field holding a JSON array the elements are rewritten
\* independently: the output array has the same length and order, elements
\* that are no objects or have neither src nor slug are unchanged, and an
\* element whose src or slug cannot be processed does not keep the legacy
\* reference of another element from being rewritten.
C17_ElementsRewrittenIndependently ==
    (pc = "media_once" /\ mKind = "array" /\ ArrayOf(mValue) # <<>>) =>
        /\ Len(ArrayOf(mOnce)) = Len(ArrayOf(mValue))
        /\ \A i \in 1..Len(ArrayOf(mValue)) :
              /\ (\/ ArrayOf(mValue)[i].k # "obj"
                  \/ (/\ ~DictHas(ArrayOf(mValue)[i].items, "src")
                      /\ ~DictHas(ArrayOf(mValue)[i].items, "slug")))
                    => ArrayOf(mOnce)[i] = ArrayOf(mValue)[i]
              /\ HasLegacySrc(ArrayOf(mValue)[i])
                    => DictGet(ArrayOf(mOnce)[i].items, "src")
                         = JStr(convert_wix_media_url(DictGet(ArrayOf(mValue)[i].items, "src").v))

\* s up to the first occurrence of c, all of s when there is none.
UpTo(s, c) == IF Find(s, c, 1) = 0 THEN s ELSE SubSeq(s, 1, Find(s, c, 1) - 1)

\* The value has the form wix:image://v1/<mediaId>[/...][#...].
IsImageUri(v) == v.t = "str" /\ StartsWith(v.s, "wix:image://v1/")

\* <mediaId>: the first path segment after the version, the fragment dropped.
ImageMediaId(s) == UpTo(UpTo(SubSeq(s, Len("wix:image://v1/") + 1, Len(s)), "#"), "/")

\* The id ends in an image extension, in either case of letters.
EndsInImageExtension(id) ==
    \E x \in {"jpg", "jpeg", "png", "gif", "webp", "svg"} : EndsWith(Lower(id), "." \o x)

ObjectOf(v) ==
    IF v.t = "str" /\ StartsWith(v.s, "{") /\ json_loads(v.s).ok /\ json_loads(v.s).val.k = "obj"
    THEN json_loads(v.s).val.items
    ELSE <<>>

\* The object has a slug that is a string, and no uri that can be converted.
HasSlugAndNoUri(d) ==
    /\ DictHas(d, "slug") /\ DictGet(d, "slug").k = "str"
    /\ DictHas(d, "uri") =>
          ~(/\ DictGet(d, "uri").k = "str"
            /\ (StartsWith(DictGet(d, "uri").v, "wix:image://") \/ StartsWith(DictGet(d, "uri").v, "http")))

\* The slug consists of hex digits and underscores only.
IsHexSlug(slug) == slug # "" /\ AllIn(Lower(slug), HexChars)

\* The target of the slug rule as the claim states it.
SlugTarget(slug) ==
    IF EndsInImageExtension(slug) \/ Contains(slug, "~mv2")
    THEN "https://static.wixstatic.com/media/" \o slug
    ELSE IF IsHexSlug(slug)
    THEN "https://static.wixstatic.com/media/" \o slug \o "~mv2.jpg"
    ELSE "https://static.wixstatic.com/media/" \o slug

\* C19: for a JSON object value with a "slug" key and no convertible "uri" the
\* result is the media base and the slug when the slug ends in an image
\* extension or holds ~mv2, the same with ~mv2.jpg appended when it does not
\* and consists of hex digits and underscores only, and the media base and
\* the slug otherwise.
C19_SlugRule ==
    (/\ pc = "media_once" /\ mKind \in {"single", "document", "array"}
     /\ HasSlugAndNoUri(ObjectOf(mValue)))
        => mOnce = PyStr(SlugTarget(DictGet(ObjectOf(mValue), "slug").v))

\* The text of the object holds "slug":"<slug>", with nothing between the colon
\* and the quote, for the non-empty slug of the object.
SlugWrittenCompact(v) ==
    /\ DictGet(ObjectOf(v), "slug").v # ""
    /\ JsonKeyMatch(v.s, "slug") = DictGet(ObjectOf(v), "slug").v

\* C19, amended: the same, for an object whose text holds "slug":"<slug>" with
\* nothing between the colon and the opening quote and a non-empty slug.
C19_CompactSlugRule ==
    (/\ pc = "media_once" /\ mKind \in {"single", "document", "array"}
     /\ HasSlugAndNoUri(ObjectOf(mValue))
     /\ SlugWrittenCompact(mValue))
        => mOnce = PyStr(SlugTarget(DictGet(ObjectOf(mValue), "slug").v))

\* A slug that is no hex id and has neither marker nor extension came out
\* under the media base without the suffix.
C19_OtherSlugAsIs ==
    /\ pc = "media_once"
    /\ mKind = "single"
    /\ mValue = PyStr("{\"slug\":\"my photo\"}")
    /\ mOnce = PyStr("https://static.wixstatic.com/media/my photo")

-----------------------------------------------------------------------------
(* Properties of the scalar coercion, checked under SpecCoerce *)

\* A non-empty str without a digit was coerced to integer or decimal.
NoDigitCoerced ==
    /\ pc = "coerced"
    /\ cOp \in {"integer", "decimal"}
    /\ cValue.t = "str"
    /\ cValue.s # ""
    /\ \A i \in 1..Len(cValue.s) : At(cValue.s, i) \notin Digits

\* C4: integer/decimal coercion of a string containing no digit returns the
\* original string, not null.
C4_NoDigitKeepsOriginal ==
    NoDigitCoerced => cResult = cValue

\* C4, amended: integer/decimal coercion of a string containing no digit
\* returns null when at most one '.' or '-' is left of it after cleaning (as
\* for "abc"); when more are left, integer coercion returns the original string
\* and decimal coercion raises decimal.InvalidOperation.
C4_NoDigitIsNullOrUnparsed ==
    NoDigitCoerced =>
        cResult = IF Len(Keep(cValue.s, {".", "-"})) <= 1 THEN None
                  ELSE IF cOp = "integer" THEN cValue
                  ELSE Raised("InvalidOperation")

\* "abc" was coerced to integer and came back as null.
C4_AbcIsNull ==
    pc = "coerced" /\ cOp = "integer" /\ cValue = PyStr("abc") /\ cResult = None

-----------------------------------------------------------------------------
(* Properties of transform_item, checked under SpecTransform *)

\* A valid email substring can be extracted from s.
HasValidEmail(s) ==
    EmailSearch(s) # "" /\ IsValidEmail(Replace(EmailSearch(s), "%40", "@"))

\* Field i of the source item is the only one written under its output name.
SoleSource(i) ==
    \A j \in 1..Len(tItem) :
        (j # i /\ tItem[j].key \notin exclude_fields(tTable))
            => NewFieldName(tItem[j].key, tTable) # NewFieldName(tItem[i].key, tTable)

\* C5: an email field with a non-empty string value from which no valid email
\* can be extracted is omitted from the transformed record, whether or not the
\* value starts with '/'.
C5_InvalidEmailOmitted ==
    pc = "transformed" =>
        \A i \in 1..Len(tItem) :
            (/\ tItem[i].key \notin exclude_fields(tTable)
             /\ NewFieldName(tItem[i].key, tTable) \in email_fields
             /\ tItem[i].val.t = "str"
             /\ tItem[i].val.s # ""
             /\ ~HasValidEmail(tItem[i].val.s)
             /\ SoleSource(i))
                => ~DictHas(tOut, NewFieldName(tItem[i].key, tTable))

\* C12: for every table and every source item, transformed_item holds no
\* field whose name is in the table's exclusion set, be it passed through or
\* produced by renaming.
C12_NoExcludedFieldInOutput ==
    \A f \in exclude_fields(tTable) : ~DictHas(tOut, f)

\* An item of a table with an exclusion set held an excluded field next to
\* another one; the other one alone came out.
C12_ExcludedFieldLeftOut ==
    /\ pc = "transformed"
    /\ Len(tItem) = 2
    /\ tItem[1].key \in exclude_fields(tTable)
    /\ Len(tOut) = 1
    /\ tOut[1].key = NewFieldName(tItem[2].key, tTable)

\* The source fields the loop has handled so far.
Handled == {tItem[i].key : i \in 1..tIdx}

\* C13: once a source field named exactly 'ID' that is not excluded has been
\* handled, transformed_item holds 'id' and no 'ID', whatever the rename map
\* of the table; a field named 'Id' is not renamed by this rule.
C13_UpperIdBecomesLowerId ==
    /\ ("ID" \in Handled /\ "ID" \notin exclude_fields(tTable))
            => (DictHas(tOut, "id") /\ ~DictHas(tOut, "ID"))
    /\ ("Id" \in Handled /\ "Id" \notin exclude_fields(tTable))
            => DictHas(tOut, "Id")

\* An item held 'ID' and 'Id': 'id' took the value of 'ID' and 'Id' stayed.
C13_IdRenamedNextToMixedCase ==
    /\ pc = "transformed"
    /\ Handled = {"ID", "Id"}
    /\ DictHas(tOut, "id") /\ DictHas(tOut, "Id") /\ ~DictHas(tOut, "ID")
    /\ \E i \in 1..2 : tItem[i].key = "ID" /\ DictGet(tOut, "id") = tItem[i].val

\* The classification lists of type_transformations, in the order in which
\* the dispatch of transform_item tests them.
ClassificationLists ==
    <<boolean_fields, integer_fields, decimal_fields, email_fields, single_wix_urls,
      array_wix_urls, document_wix_fields, content_wix_fields, url_fields, string_fields>>

\* The lists that name a field.
TagsOf(f) == {k \in DOMAIN ClassificationLists : f \in ClassificationLists[k]}

\* C14: each field name has at most one classification tag: no field name is in
\* more than one of the classification lists that drive the dispatch; stated
\* of the projected name of every field of the source item.
C14_AtMostOneTag ==
    \A i \in 1..Len(tItem) : Cardinality(TagsOf(NewFieldName(tItem[i].key, tTable))) <= 1

\* The text of a numeric field's string value does not parse: what is left of
\* it after stripping is more than a sign or a dot and is not a numeral.
Unparsable(v) ==
    /\ v.t = "str"
    /\ Keep(v.s, Digits \cup {".", "-"}) \notin {"", "-", "."}
    /\ ~IsNumeral(Keep(v.s, Digits \cup {".", "-"}))

\* The value is a JSON array with an element whose slug is not a string, which
\* the gallery loop cannot process.
HasNonStringSlug(v) ==
    /\ v.t = "str"
    /\ json_loads(v.s).ok
    /\ json_loads(v.s).val.k = "arr"
    /\ \E e \in 1..Len(json_loads(v.s).val.items) :
            /\ json_loads(v.s).val.items[e].k = "obj"
            /\ DictHas(json_loads(v.s).val.items[e].items, "slug")
            /\ DictGet(json_loads(v.s).val.items[e].items, "slug").k # "str"

\* The coercion or the rewriting of source field i fails.
ConversionFails(i) ==
    \/ /\ NewFieldName(tItem[i].key, tTable) \in (integer_fields \cup decimal_fields) \ boolean_fields
       /\ Unparsable(tItem[i].val)
    \/ /\ NewFieldName(tItem[i].key, tTable) \in array_wix_urls
       /\ HasNonStringSlug(tItem[i].val)

\* C15: transform_item returns a record and does not raise: a field whose
\* coercion or rewriting fails is in the output under its projected name with the
\* value it had, and every other field comes out as it does when it is
\* transformed alone.
C15_FailedFieldKeepsOriginal ==
    /\ \A k \in 1..Len(tOut) : tOut[k].val.t # "raise"
    /\ pc = "transformed" =>
          \A i \in 1..Len(tItem) :
              (tItem[i].key \notin exclude_fields(tTable) /\ SoleSource(i)) =>
                  LET new_field == NewFieldName(tItem[i].key, tTable)
                      alone == TransformField(<<>>, tItem[i].key, tItem[i].val, tTable)
                  IN /\ ConversionFails(i) =>
                            (DictHas(tOut, new_field) /\ DictGet(tOut, new_field) = tItem[i].val)
                     /\ DictHas(tOut, new_field) = (alone # <<>>)
                     /\ DictHas(tOut, new_field) => DictGet(tOut, new_field) = alone[1].val

\* A decimal field whose text does not parse came out with its text, next to a
\* second field that was converted.
C15_UnparsedDecimalKept ==
    /\ pc = "transformed"
    /\ tItem = <<[key |-> "budget", val |-> PyStr("1.2.3")], [key |-> "active", val |-> PyStr("TRUE")]>>
    /\ tOut = <<[key |-> "budget", val |-> PyStr("1.2.3")], [key |-> "active", val |-> PyBool(TRUE)]>>

-----------------------------------------------------------------------------
(* Properties of findMatchingContact, checked under SpecContact *)

\* The normalized query email and the normalized email of row i.
QueryEmail == NormOrEmpty(query.email)
RowEmail(i) == normalize_str(PyStr(pool[i].email))

\* The points row i earns from the email signal, and its whole score.
EmailPointsOf(i) == EmailScore(QueryEmail, RowEmail(i))
ScoreOf(i) == ContactScore(query, pool[i])

\* x is contained in y or y in x.
EitherContains(x, y) == Contains(x, y) \/ Contains(y, x)

\* C6: a returned candidate has at least an email partial match with the
\* query: its normalized email equals, contains or is contained in the
\* normalized query email.
C6_ReturnedHasEmailPartial ==
    (pc = "matched" /\ matched # 0)
        => (RowEmail(matched) = QueryEmail \/ EitherContains(RowEmail(matched), QueryEmail))

\* The row scored last, its normalized first and last name and the query's.
LastScored == pool[rowIdx]
QueryFirst == NormOrEmpty(query.firstName)
QueryLast == NormOrEmpty(query.lastName)
RowFirst == normalize_str(PyStr(LastScored.firstName))
RowLast == normalize_str(PyStr(LastScored.lastName))

\* C7: when the query's first and last name are both present and not both
\* equal to the candidate's, the candidate's score holds +5 for a contained first
\* name and another +5 for a contained last name.
C7_PartialNamePointsAdd ==
    (/\ rowIdx > 0
     /\ QueryFirst # "" /\ QueryLast # ""
     /\ ~(RowFirst = QueryFirst /\ RowLast = QueryLast))
        => score = EmailPointsOf(rowIdx)
                   + FullNameScore(NormOrEmpty(query.fullName), normalize_str(PyStr(LastScored.fullName)))
                   + PhoneScore(NormOrEmpty(query.phone), normalize_str(PyStr(LastScored.phone)),
                                normalize_str(PyStr(LastScored.mobile)))
                   + (IF EitherContains(RowFirst, QueryFirst) THEN 5 ELSE 0)
                   + (IF EitherContains(RowLast, QueryLast) THEN 5 ELSE 0)

\* The greatest score over the pool, 0 for an empty pool.
MaxScore == IF pool = <<>> THEN 0 ELSE 0 - MinOf({0 - ScoreOf(i) : i \in 1..Len(pool)})

\* C9: the returned candidate is the one with the maximum score over the whole
\* pool, the first in scan order among those tied at the maximum, and it is
\* returned only if that maximum is at least 60; otherwise the result is null.
C9_FirstOfMaxScoreFromSixty ==
    pc = "matched" =>
        matched = IF MaxScore >= 60
                  THEN MinOf({i \in 1..Len(pool) : ScoreOf(i) = MaxScore})
                  ELSE 0

\* Two rows tied at an accepted maximum, and the first one was returned.
C9_TieKeepsFirst ==
    /\ pc = "matched"
    /\ Len(pool) = 2
    /\ ScoreOf(1) = ScoreOf(2)
    /\ ScoreOf(1) >= 60
    /\ matched = 1

\* C10: a candidate that earns no points from the email signal is never
\* returned, whatever its name and phone matches are.
C10_NoEmailPointsNeverReturned ==
    pc = "matched" => \A i \in 1..Len(pool) : EmailPointsOf(i) = 0 => matched # i

\* A row with every name and phone point and none from the email is the best
\* of the pool, and nothing was returned.
C10_NamesAloneRejected ==
    /\ pc = "matched"
    /\ matched = 0
    /\ best_row # 0
    /\ EmailPointsOf(best_row) = 0
    /\ best_score = NameExactPoints + FirstLastExactPoints + PhonePoints

\* Row i has the query's normalized email, which is not empty.
EmailExact(i) == QueryEmail # "" /\ RowEmail(i) = QueryEmail

\* C11: with an email in the query and a pool of two candidates, one whose
\* normalized email equals the query's and one that earns nothing from the
\* email signal (name and phone matches at most), the candidate with the exact
\* email is returned, whichever of the two comes first.
C11_EmailExactWinsAnyOrder ==
    (pc = "matched" /\ Len(pool) = 2) =>
        \A i \in 1..2 :
            (EmailExact(i) /\ EmailPointsOf(3 - i) = 0) => matched = i

\* An email-only query; the exact candidate came second, after one without
\* email points, and was returned.
C11_ExactSecondReturned ==
    /\ pc = "matched"
    /\ Len(pool) = 2
    /\ query.fullName = None /\ query.firstName = None
    /\ query.lastName = None /\ query.phone = None
    /\ EmailExact(2)
    /\ EmailPointsOf(1) = 0
    /\ matched = 2

-----------------------------------------------------------------------------
(* Properties of findMatchingAddress, checked under SpecAddress *)

\* Row i has the query's 10-character key and the query's house address.
MatchesBoth(i) ==
    /\ Prefix(norm_addr(aPool[i].propertyFullAddress)) = Prefix(norm_addr(aFull))
    /\ norm_addr(aPool[i].houseAddress) = norm_addr(aHouse)

\* The first row that matches on both, 0 when there is none or the full
\* address normalizes to nothing.
FirstMatchingBoth ==
    IF norm_addr(aFull) = "" \/ ~\E i \in 1..Len(aPool) : MatchesBoth(i) THEN 0
    ELSE MinOf({i \in 1..Len(aPool) : MatchesBoth(i)})

\* C8: with a houseAddress supplied (a non-empty string), the returned
\* candidate is the first one that matches on the 10-character prefix and has
\* the same normalized house address; prefix-only candidates are skipped, and
\* the result is no match when none matches both.
C8_SuppliedHouseMustMatch ==
    (pc = "addr_done" /\ aHouse.t = "str" /\ aHouse.s # "") => aResult = FirstMatchingBoth

\* C8, amended: the same, for a houseAddress that is supplied and normalizes to
\* a non-empty key.
C8_NormalizedHouseMustMatch ==
    (pc = "addr_done" /\ HouseKey(aHouse) # "") => aResult = FirstMatchingBoth

\* The first row matched on the prefix only and was skipped for the second.
C8_PrefixOnlySkipped ==
    /\ pc = "addr_done"
    /\ HouseKey(aHouse) # ""
    /\ aResult = 2
    /\ Prefix(norm_addr(aPool[1].propertyFullAddress)) = Prefix(norm_addr(aFull))
    /\ ~MatchesBoth(1)

-----------------------------------------------------------------------------
(* Properties of the document converter, checked under SpecDocument *)

\* A wix:document://v1/ URI whose path after the version (and ugd/) prefix has
\* fewer than 2 segments.
IsShortDocumentUri(s) == StartsWith(s, "wix:document://v1/") /\ Len(DocumentPath(s)) < 2

\* The elements of the JSON array handed in, <<>> when dValue is none.
DocArrayIn ==
    IF dValue.t = "str" /\ StartsWith(dValue.s, "[") /\ json_loads(dValue.s).ok
    THEN json_loads(dValue.s).val.items
    ELSE <<>>

\* The elements of the JSON array handed back.
DocArrayOut == json_loads(dOut.s).val.items

\* The positions of the array that hold a short URI, and those that hold a
\* URI with 2 segments or more.
ShortAt == {i \in 1..Len(DocArrayIn) : DocArrayIn[i].k = "str" /\ IsShortDocumentUri(DocArrayIn[i].v)}
WholeAt == {i \in 1..Len(DocArrayIn) : DocArrayIn[i].k = "str" /\ IsDocumentUri(PyStr(DocArrayIn[i].v))}

\* C16: converting a wix:document:// URI with fewer than 2 path segments after
\* the version (and ugd/) prefix gives an error result with a message, never a
\* filename/documentPublicUrl record; convert_document_field_value keeps such
\* a single value, and such an element of an array, as it was and does not count
\* it as converted.
C16_ShortUriIsErrorAndKept ==
    /\ (pc = "doc_url" /\ IsShortDocumentUri(dValue.s))
            => (dRecord.t = "error" /\ dRecord.s # "")
    /\ (pc = "doc_field" /\ IsShortDocumentUri(dValue.s))
            => (dOut = dValue /\ dCount = 0)
    /\ (pc = "doc_field" /\ ShortAt # {})
            => /\ dCount = Cardinality(WholeAt)
               /\ json_loads(dOut.s).ok
               /\ Len(DocArrayOut) = Len(DocArrayIn)
               /\ \A i \in ShortAt : DocArrayOut[i] = DocArrayIn[i]

\* An array of a short URI and a whole one: the whole one became a record and
\* was counted, the short one stayed where it was.
C16_ShortElementKeptNextToConverted ==
    /\ pc = "doc_field"
    /\ Len(DocArrayIn) = 2
    /\ ShortAt = {1} /\ WholeAt = {2}
    /\ dCount = 1
    /\ DocArrayOut[1] = DocArrayIn[1]
    /\ DocArrayOut[2].k = "obj"

-----------------------------------------------------------------------------
(* Properties of the string normalizers, checked under SpecNormalize *)

\* C20: normalize_str and normalize_header are total: for every input, null
\* and the empty string included, they return a string and do not raise, and
\* null and the empty string give the empty string.
C20_NormalizersTotal ==
    pc = "normalized" =>
        /\ nResult.t = "str"
        /\ (nValue = None \/ nValue = PyStr("")) => nResult = PyStr("")

-----------------------------------------------------------------------------
(* More properties of findMatchingAddress, checked under SpecAddress *)

\* Row i has the first 10 normalized characters of the query, or the whole
\* query key when the query is shorter.
SharesKey(i) == Prefix(norm_addr(aPool[i].propertyFullAddress)) = Prefix(norm_addr(aFull))

\* C21: with no houseAddress supplied (None or the empty string) the first row
\* in scan order whose normalized full address has the query's 10-character
\* key is returned, the key of a shorter query being the whole query; a query
\* that normalizes to nothing gives no match without a row being scanned.
C21_FirstPrefixMatchWithoutHouse ==
    (pc = "addr_done" /\ (aHouse = None \/ aHouse = PyStr(""))) =>
        IF norm_addr(aFull) = "" THEN aResult = 0 /\ aIdx = 0
        ELSE IF \E i \in 1..Len(aPool) : SharesKey(i)
        THEN aResult = MinOf({i \in 1..Len(aPool) : SharesKey(i)})
        ELSE aResult = 0

\* A query shorter than 10 characters passed over a longer address that
\* starts with it and returned the row that equals it.
C21_ShortKeyNeedsWholeKey ==
    /\ pc = "addr_done"
    /\ aHouse = None
    /\ Len(norm_addr(aFull)) < AddressKeyLen
    /\ Len(aPool) = 2
    /\ StartsWith(norm_addr(aPool[1].propertyFullAddress), norm_addr(aFull))
    /\ ~SharesKey(1)
    /\ aResult = 2

-----------------------------------------------------------------------------
(* More properties of transform_item, checked under SpecTransform *)

\* Source fields i and j are not excluded and project to the same output name.
SameTarget(i, j) ==
    /\ tItem[i].key \notin exclude_fields(tTable)
    /\ tItem[j].key \notin exclude_fields(tTable)
    /\ NewFieldName(tItem[i].key, tTable) = NewFieldName(tItem[j].key, tTable)

\* What source field i puts into an empty transformed_item: <<>> when the
\* field is left out.
Alone(i) == TransformField(<<>>, tItem[i].key, tItem[i].val, tTable)

\* C22: when two fields of one item project to the same output name, the
\* output field holds the value derived from the one that comes later in the
\* item's field order.
C22_LastWriteWins ==
    pc = "transformed" =>
        \A i, j \in 1..Len(tItem) :
            (i < j /\ SameTarget(i, j) /\ ~\E k \in (j + 1)..Len(tItem) : SameTarget(j, k)) =>
                /\ DictHas(tOut, NewFieldName(tItem[j].key, tTable)) = (Alone(j) # <<>>)
                /\ Alone(j) # <<>> => DictGet(tOut, NewFieldName(tItem[j].key, tTable)) = Alone(j)[1].val

\* The source fields that write to the output name of field i.
WritersOf(i) == {k \in 1..Len(tItem) : SameTarget(i, k) /\ Alone(k) # <<>>}

\* C22, amended: the output field holds the value derived from the last of
\* the source fields that is written under the name; a field left out as an
\* invalid email or url writes nothing and leaves the earlier value.
C22_LastWrittenWins ==
    pc = "transformed" =>
        \A i, j \in 1..Len(tItem) :
            (i < j /\ SameTarget(i, j)) =>
                /\ DictHas(tOut, NewFieldName(tItem[j].key, tTable)) = (WritersOf(j) # {})
                /\ WritersOf(j) # {} =>
                      DictGet(tOut, NewFieldName(tItem[j].key, tTable))
                          = Alone(0 - MinOf({0 - k : k \in WritersOf(j)}))[1].val

\* 'ID' came first and 'id' second: 'id' holds the value of the second.
C22_LowerIdOverwritesUpperId ==
    /\ pc = "transformed"
    /\ tItem = <<[key |-> "ID", val |-> PyStr("7")], [key |-> "id", val |-> PyStr("8")]>>
    /\ tOut = <<[key |-> "id", val |-> PyStr("8")]>>

-----------------------------------------------------------------------------
(* More properties of the scalar coercion, checked under SpecCoerce *)

\* The value is boolean true, a string equal to one of "true", "1", "yes",
\* "on" whatever the case of its letters, or a number that is not zero.
ClaimedTrue(v) ==
    \/ v = PyBool(TRUE)
    \/ v.t = "str" /\ Lower(v.s) \in {"true", "1", "yes", "on"}
    \/ v.t \in {"int", "decimal"} /\ Truthy(v)

\* C23: boolean coercion is total and returns true exactly for boolean true,
\* one of the four words in any case, or a nonzero number, and false for every
\* other string, number or null.
C23_BooleanTrueExactly ==
    (pc = "coerced" /\ cOp = "boolean") => cResult = PyBool(ClaimedTrue(cValue))


(***************************************************************************)
(* More properties of findMatchingContact, checked under SpecContact.      *)
(***************************************************************************)

\* C25: a candidate whose normalized email equals the query's is returned in
\* preference to every candidate without an exact email match: whenever the
\* pool holds a candidate with the exact email, the row returned has the exact
\* email, whatever name and phone points the others earn.
C25_ExactEmailAlwaysPreferred ==
    (pc = "matched" /\ \E i \in 1..Len(pool) : EmailExact(i)) =>
        (matched # 0 /\ EmailExact(matched))

(***************************************************************************)
(* Properties of the handlers that read and write tables, checked under    *)
(* SpecMigrate.                                                            *)
(***************************************************************************)

\* C24: in dry-run mode no handler of the migrator writes: no step of
\* migrate_table_data, run_migration, convert_existing_wix_urls or
\* restore_from_backup taken with dry_run = True changes the items of a table.
C24_DryRunWritesNothing == [][dry_run => store' = store]_vars

\* A dry run of the URL conversion over a table with a record that needs an
\* update: the conversion is counted, no record is updated.
C24_DryRunConversionCounted ==
    /\ pc = "converted" /\ dry_run
    /\ result.total_conversions > 0
    /\ result.total_updated = 0

\* migrate_table_data has returned migration_result.
Returned == pc = "migrated" \/ (pc \in {"run", "run_done"} /\ gIdx > 0)

\* C26: when migrate_table_data has returned, dry or live, whatever failed:
\* successful_items + failed_items = total_items, and neither is negative.
C26_CountersAddUp ==
    Returned =>
        /\ result.successful_items + result.failed_items = result.total_items
        /\ result.successful_items >= 0
        /\ result.failed_items >= 0

\* A live migration of more than one batch: the first batch was written, the
\* write of the second raised, and an item without id was skipped.
C26_SecondBatchFailed ==
    /\ pc = "migrated" /\ ~dry_run
    /\ Len(gItems) > batch_size
    /\ result.successful_items = batch_size
    /\ result.failed_items = 1
    /\ Len(result.errors) = 1

\* C27: after a live migrate_table_data into an empty table, the target holds
\* exactly the items counted in successful_items (the ids of a source table
\* are distinct, so as many items as the counter says); an item of a batch
\* whose write raised is counted failed and is not in the table.
C27_WrittenIffCounted ==
    (pc = "migrated" /\ ~dry_run) => Len(store[gTable]) = result.successful_items

\* C28: run_migration counts a table in successful_tables only when its
\* migration ran without an error (a table whose scan raised is counted in
\* failed_tables), and at the end successful_tables + failed_tables =
\* total_tables.
C28_OnlyCleanTablesSucceed ==
    /\ (pc = "run" /\ gIdx = 1 /\ stats.successful_tables = 1) => (~gScanRaises /\ result.errors = <<>>)
    /\ pc = "run_done" => stats.successful_tables + stats.failed_tables = stats.total_tables

(***************************************************************************)
(* Properties of rename_table, checked under SpecRename.                   *)
(***************************************************************************)

\* C29: the old table is deleted only after every item of it has been written
\* to the new table, and never when describing, scanning, creating, waiting
\* for or writing raised.
C29_OldDeletedOnlyAfterCopy ==
    ~rOldExists =>
        /\ rOld \subseteq rNew
        /\ rFailed \cap {"describe", "scan", "create", "wait", "write"} = {}

(***************************************************************************)
(* Properties of the date fixer, checked under SpecDates.                  *)
(***************************************************************************)

\* C30: the date fixer converges.  What convert_to_iso_pacific returned is
\* not classified invalid by is_invalid_date_format, and after a run of
\* fix_all_dates in which no scan and no update raised, a scan of the table
\* reports no issues, so that a second run updates nothing.
C30_FixConverges ==
    /\ \A i \in 1..Len(fInvalid) : \A k \in 1..Len(fInvalid[i].issues) :
            ~is_invalid_date_format(fInvalid[i].issues[k].val)
    /\ (fRuns >= 1 /\ ~fScanRaises /\ fErrors = 0) => InvalidItems(fTable) = <<>>
=============================================================================
